---- MODULE Spec2Model ----
(***************************************************************************)
(* Automation and scheduling engine of reviewassist-pro:                   *)
(*   src/src/models/automation.py  WorkflowEngine, AutomationRuleEngine    *)
(*   src/src/scheduler.py          AutomationScheduler                     *)
(*   src/src/routes/automation.py  create_workflow, update_workflow, ...   *)
(*                                                                         *)
(* Time is counted in minutes.  Every datetime.utcnow() call is a separate *)
(* read of the wall clock: the reads made by one step are nondecreasing,   *)
(* and the step either stays within one minute or crosses into the next.   *)
(* The store holds committed rows; a step of the model is the code between *)
(* two commits.                                                            *)
(***************************************************************************)
EXTENDS Integers, Sequences, FiniteSets, TLC

\* ---------------------------------------------------------------- bounds
MaxClock == 63
MaxRetryClock == 17
MaxTasks == 2
MaxExec == 3
MaxRuleClock == 32
MaxEvents == 3

\* ------------------------------------------------------ program constants
None == -1
DefaultMaxRetries == 3
RetryBackoffMinutes == 5
DefaultIntervalMinutes == 60
CronStubMinutes == 1440
PendingLimit == 10
RetentionMinutes == 10080
AlertGateMinutes == 5
DefaultVolumeThreshold == 10
DefaultNegativePercent == 30
DefaultDropThreshold == 30

\* enum values (automation.py:8-32)
WorkflowStatus == {"active", "paused", "disabled", "error"}
TaskStatus == {"pending", "running", "completed", "failed", "cancelled"}
TriggerType == {"schedule", "event", "manual"}
ActionType == {"generate_response", "send_notification", "generate_report",
               "update_status", "send_email", "webhook_call"}

\* action kinds for which _execute_task calls a handler (automation.py:352-357)
HandledActionTypes == {"generate_response", "send_notification", "generate_report"}

\* ------------------------------------------------------- input alphabets
\* trigger_config: 'type' key ("none" = key absent) and 'interval_minutes'
\* key (None = key absent)
TriggerConfigs ==
    { [type |-> "interval", interval_minutes |-> 60],
      [type |-> "interval", interval_minutes |-> None],
      [type |-> "cron",     interval_minutes |-> None],
      [type |-> "none",     interval_minutes |-> 60] }

\* an action of a workflow: 'type' and 'config' ("absent" = key absent)
ActionLists ==
    { << >>,
      << [type |-> "update_status", config |-> "cfgA"] >>,
      << [type |-> "send_notification", config |-> "absent"],
         [type |-> "update_status",     config |-> "cfgB"] >> }

\* the actions lists of the workflows whose tasks are followed to the end
RetryActionLists ==
    { << [type |-> "generate_response", config |-> "cfgA"] >>,
      << [type |-> "send_notification", config |-> "absent"],
         [type |-> "generate_report",   config |-> "cfgB"] >>,
      << [type |-> "webhook_call",      config |-> "cfgB"] >> }

\* the actions list an owner edit puts in place of the workflow's list
EditActionLists == { << [type |-> "send_email", config |-> "cfgC"] >> }

MaxExecutionsChoices == {None, 0, 1, 2}

\* trigger_type and trigger_config of the workflows created: every schedule
\* descriptor, and one manual workflow (its trigger_config is never read)
Triggers ==
    { [trigger_type |-> "schedule", trigger_config |-> c] : c \in TriggerConfigs }
    \cup { [trigger_type |-> "manual",
            trigger_config |-> [type |-> "none", interval_minutes |-> None]] }

EventNames == {"new_review", "rating_threshold"}
CooldownChoices == {0, 30}
PriorityChoices == {1, 2}
RuleClockSteps == {10, 20}
ClockSteps == {60}

\* the minutes by which the clock may advance during one step of a handler
Drift == {0, 1}

\* the ids the store hands out to workflows and to automation rules, and a
\* workflow id it never hands out
WorkflowIds == {1}
UnknownWorkflowIds == {2}
RuleIds == {1, 2}

\* two scheduled workflows that fall due in the same tick, and their actions
\* lists: one of known kinds, one whose second action has a 'type' that is
\* no value of ActionType
FaultWorkflowIds == {1, 2}
FaultActionLists ==
    { << [type |-> "send_notification", config |-> "absent"] >>,
      << [type |-> "generate_report", config |-> "cfgA"],
         [type |-> "no_such_kind",    config |-> "cfgB"] >> }
RetryClockSteps == {5}

\* the ids the store hands out to scheduled reports, and the interval_minutes
\* of the schedule_config they are created with
ReportIds == {1}
ReportIntervals == {5}

\* the schedule_type of a report body: the two kinds
\* calculate_next_schedule_time knows (routes/automation.py:604, 607) and
\* one it does not
ReportScheduleTypes == {"interval", "cron", "manual"}

\* the schedule_config of a report body, with or without interval_minutes
ReportConfigs == { [interval_minutes |-> i] : i \in ReportIntervals \cup {None} }

\* the actions of the workflow whose tasks the scheduler retries in the ticks
\* that find a scheduled report due
ReportActionLists == { << [type |-> "generate_response", config |-> "cfgA"] >> }

\* the number of threads the start() calls of one run may create
MaxThreads == 2

\* the last minute of the runs that follow alert rules
MaxAlertClock == 11

\* the last minute of the runs that follow scheduled reports
MaxReportClock == 11
ThreadIds == 1..MaxThreads

\* the ids the store hands out to alert rules
AlertIds == {1}

\* threshold_config of an alert rule: the keys _evaluate_alert_rule reads
\* (None = key absent); drop_threshold in sixtieths of a star,
\* negative_ratio_threshold in percent
NoThresholds ==
    [drop_threshold |-> None, volume_threshold |-> None,
     negative_ratio_threshold |-> None]

\* metric_type and threshold_config of the alert rules created
AlertInputs ==
    { [metric_type |-> "review_volume", threshold_config |-> NoThresholds],
      [metric_type |-> "review_volume",
       threshold_config |-> [NoThresholds EXCEPT !.volume_threshold = 10]],
      [metric_type |-> "negative_sentiment", threshold_config |-> NoThresholds],
      [metric_type |-> "negative_sentiment",
       threshold_config |-> [NoThresholds EXCEPT !.negative_ratio_threshold = 0]],
      [metric_type |-> "rating_drop", threshold_config |-> NoThresholds] }

\* what the queries of the metric helpers return (scheduler.py:263-303):
\* count = reviews of the last hour, total and negative = reviews and
\* negative reviews of the last 24 hours, recent and previous = the two
\* average ratings in sixtieths of a star (None = no review in the window)
Metrics ==
    { [count |-> 0,  total |-> 0,  negative |-> 0, recent |-> None, previous |-> None],
      [count |-> 9,  total |-> 9,  negative |-> 2, recent |-> 252,  previous |-> 270],
      [count |-> 10, total |-> 10, negative |-> 3, recent |-> 240,  previous |-> 270] }

AlertClockSteps == {1, 4}

DayMinutes == 1440

HourMinutes == 60

\* the ids of the reviews rows the metric helpers are given to read
ReviewIds == {1, 2}

\* Review.rating of these rows (1-5 stars, models/review.py:27)
Ratings == {4, 5}

\* the ratings of the three reviews seed_sample_data inserts, in the order
\* it adds them (routes/review.py:397-432)
SeedRatings == <<5, 3, 2>>

\* threshold_config of the rating_drop rules created: key absent, and one
\* star
RatingAlertInputs ==
    { [metric_type |-> "rating_drop", threshold_config |-> NoThresholds],
      [metric_type |-> "rating_drop",
       threshold_config |-> [NoThresholds EXCEPT !.drop_threshold = 60]] }

\* the ages, in minutes, of these rows at the first tick: half a day,
\* 3 days, 7 days and a half, 9 days
ReviewAges == {720, 3 * DayMinutes, 7 * DayMinutes + 720, 9 * DayMinutes}

\* ------------------------------------------------------------------ state
VARIABLES
    clock,        \* wall clock (minutes)
    workflows,    \* committed workflows rows: id -> row
    tasks,        \* committed workflow_tasks rows: id -> row
    nextTaskId,   \* the id the store gives the next workflow_tasks row
    rules,        \* committed automation_rules rows: id -> row
    ctx,          \* whose code is running: "idle", "request", "tick"
    tickStep,     \* position of _run_scheduler inside one tick
    dueWfs,       \* due_workflows still to be visited (scheduler.py:106)
    pendQ,        \* pending_tasks still to be visited (scheduler.py:131)
    execQ,        \* tasks_created still to be executed (automation.py:309)
    cur,          \* task inside _execute_task: [tid, via, row], tid = 0 when
                  \* none; row = the task object as the thread holds it,
                  \* NoRow while the object is expired
    ssn,          \* scheduler session: rows loaded and changed, not committed
    ssnDel,       \* scheduler session: rows marked deleted, not committed
    frame,        \* activation record of the running execute_workflow
    dbNew,        \* db.session: task objects added and not yet committed
    lastCall,     \* the execute_workflow call that has just returned
    prevCall,     \* the call that returned immediately before lastCall
    invoked,      \* the last action handler invocation: [tid, before]
    nEvents,      \* number of trigger_event calls made so far
    curEvent,     \* event_type of the running or last trigger_event
    ruleQ,        \* rules of the running trigger_event still to be visited
    fired,        \* triggered_rules of the running or last trigger_event
    fireLog,      \* the _execute_rule runs of that call: [rule, at, prev]
    picks,        \* task id -> entries into _execute_task since the task
                  \* was last made Pending
    loop,         \* a scheduler loop thread that runs beside the request
                  \* threads: its position, its session and its task queue
    reports,      \* committed scheduled_reports rows: id -> row
    running,      \* AutomationScheduler.running
    threads,      \* the threads start() has created, in order of creation:
                  \* [pc, lastTick], pc the position in _run_scheduler
    joining,      \* the thread a stop() call is waiting for in join, else 0
    alerts,       \* committed alert_rules rows: id -> row
    evals,        \* alert rule id -> its last _evaluate_alert_rule call:
                  \* [at, rule, metrics, raised, escaped, result], NoEval
                  \* before the first
    reviews,      \* committed reviews rows: id -> [created_at, rating]
    race          \* the execute_workflow calls in flight on the request
                  \* thread and on the scheduler thread, each with a session
                  \* of its own: thread -> [pc, seen, task, row], seen the
                  \* workflow row and row the task row the call has loaded;
                  \* the number of calls that have returned True; whether
                  \* a call began while another was in flight

storeVars == <<workflows, tasks, nextTaskId>>
ctlVars == <<ctx, tickStep, dueWfs, pendQ, execQ, cur, ssn, ssnDel, frame, dbNew>>
obsVars == <<lastCall, prevCall, invoked>>
ruleVars == <<rules, nEvents, curEvent, ruleQ, fired, fireLog>>
schedVars == <<running, threads, joining>>
alertVars == <<alerts, evals, reviews>>
vars == <<clock, storeVars, ctlVars, obsVars, ruleVars, picks, loop, reports,
          schedVars, alertVars, race>>

\* ---------------------------------------------------------------- helpers
Truthy(x) == x # None /\ x # 0

NoRow == [absent |-> TRUE]

NoCall == [k |-> 0, wf |-> 0, ret |-> "none", created |-> {},
           before |-> NoRow, after |-> NoRow, tasksBefore |-> 0]

NoFrame == [active |-> FALSE, wf |-> 0, created |-> {}, before |-> NoRow,
            tasksBefore |-> 0]

NoCur == [tid |-> 0, via |-> "none", row |-> NoRow]

NoInvoke == [tid |-> 0, before |-> "none"]

\* no execute_workflow call in flight
NoRace ==
    [ route |-> [pc |-> "idle", seen |-> NoRow, task |-> 0, row |-> NoRow],
      tick  |-> [pc |-> "idle", seen |-> NoRow, task |-> 0, row |-> NoRow],
      returnedTrue |-> 0, overlapped |-> FALSE ]

\* the loop thread between two ticks
NoLoop == [step |-> "sleep", queue |-> << >>, cur |-> 0,
           loaded |-> << >>, ssn |-> << >>]

\* the row of task t as the running code sees it: the scheduler session's
\* own object when it has loaded one, else the committed row
TaskObj(t) == IF t \in DOMAIN ssn THEN ssn[t] ELSE tasks[t]

LiveTasks == (DOMAIN tasks \cup DOMAIN ssn)

\* dict.get(key, default)
GetOr(v, default) == IF v = None THEN default ELSE v

\* the id the store gives the next row of a table: id is a plain Integer
\* primary key (automation.py:36, 88, 130; review.py:24) of an SQLite table
\* (main.py:49, scheduler.py:35), which gets one more than the largest id
\* the table holds, so the id of a deleted last row is given again
NextId(table) ==
    IF DOMAIN table = {} THEN 1
    ELSE (CHOOSE x \in DOMAIN table : \A y \in DOMAIN table : y <= x) + 1

\* the rows of table whose id is in ids
Restrict(table, ids) == [x \in (DOMAIN table) \cap ids |-> table[x]]


\* sequences of k successive utcnow() reads, the first at time start
Reads(k, start) ==
    { r \in [1..k -> { start + d : d \in Drift }] :
        /\ r[1] = start
        /\ \A i \in 1..(k - 1) : r[i] <= r[i + 1] }

\* ------------------------------------------------------- WorkflowEngine
\* ShouldExecute with the cap test off by one (> for >=)
ShouldExecuteOffByOne(wf) ==
    ~(Truthy(wf.max_executions) /\ wf.execution_count > wf.max_executions)

\* _should_execute (automation.py:314-325)
ShouldExecute(wf) ==
    ~(Truthy(wf.max_executions) /\ wf.execution_count >= wf.max_executions)

\* _calculate_next_execution (automation.py:327-340), now = its utcnow()
CalculateNextExecution(wf, now) ==
    IF wf.trigger_type = "schedule"
    THEN IF wf.trigger_config.type = "interval"
         THEN now + GetOr(wf.trigger_config.interval_minutes, DefaultIntervalMinutes)
         ELSE IF wf.trigger_config.type = "cron"
              THEN now + CronStubMinutes
              ELSE None
    ELSE None

\* WorkflowTask(...) as built at automation.py:292-297 with the column
\* defaults of automation.py:95-109
NewTask(wfId, action, now) ==
    [ workflow_id   |-> wfId,
      action_type   |-> action.type,
      action_config |-> IF action.config = "absent" THEN "empty" ELSE action.config,
      status        |-> "pending",
      scheduled_at  |-> now,
      started_at    |-> None,
      completed_at  |-> None,
      result_data   |-> "null",
      error_message |-> "null",
      retry_count   |-> 0,
      max_retries   |-> DefaultMaxRetries ]

\* f extended by the rows of g
Merge(f, g) ==
    [x \in (DOMAIN f) \cup (DOMAIN g) |-> IF x \in DOMAIN g THEN g[x] ELSE f[x]]

Range(s) == { s[i] : i \in DOMAIN s }


\* value returned by the handler of an action kind (automation.py:377-396);
\* kinds without a branch at automation.py:352-357 leave result = None
ResultOf(kind) ==
    IF kind \in HandledActionTypes THEN "result_" \o kind ELSE "null"

\* _execute_task, lines 345-346: the Running transition
StartTask(row, now) ==
    [row EXCEPT !.status = "running", !.started_at = now]

\* _execute_task, lines 360-362: the handler returned
CompleteTask(row, now) ==
    [row EXCEPT !.status = "completed",
                !.result_data = ResultOf(row.action_type),
                !.completed_at = now]

\* _execute_task, lines 364-373: the handler raised; t1 and t2 are the
\* utcnow() reads of line 367 and line 373
FailTask(row, t1, t2) ==
    LET failed == [row EXCEPT !.status = "failed",
                              !.error_message = "error",
                              !.completed_at = t1]
    IN  IF failed.retry_count < failed.max_retries
        THEN [failed EXCEPT !.retry_count = @ + 1,
                            !.status = "pending",
                            !.scheduled_at = t2 + RetryBackoffMinutes]
        ELSE failed

\* TrackExecution counting the execution twice
TrackExecutionTwice(wf, tLast, tNext) ==
    LET counted == [wf EXCEPT !.execution_count = @ + 2,
                              !.last_execution = tLast]
    IN  [counted EXCEPT !.next_execution = CalculateNextExecution(counted, tNext)]

\* execute_workflow, lines 301-304: the tracking fields; tLast and tNext are
\* the utcnow() reads of line 303 and of _calculate_next_execution
TrackExecution(wf, tLast, tNext) ==
    LET counted == [wf EXCEPT !.execution_count = @ + 1,
                              !.last_execution = tLast]
    IN  [counted EXCEPT !.next_execution = CalculateNextExecution(counted, tNext)]

\* execute_workflow, lines 281-287: the fail-fast test on the loaded row
Eligible(w) ==
    /\ w \in DOMAIN workflows
    /\ workflows[w].status = "active"
    /\ ShouldExecute(workflows[w])

RowOf(w) == IF w \in DOMAIN workflows THEN workflows[w] ELSE NoRow

\* the position of the first action whose 'type' is no value of ActionType,
\* for which ActionType(action['type']) raises ValueError (line 294); 0 when
\* every action has a known kind
BadIndex(acts) ==
    LET bad == { i \in DOMAIN acts : acts[i].type \notin ActionType }
    IN  IF bad = {} THEN 0 ELSE CHOOSE i \in bad : \A j \in bad : i <= j

\* db.session.commit(): the store after the INSERT of the objects in pending,
\* in the order they were added, the first of them getting the id next
Flushed(store, pending, next) ==
    Merge(store, [t \in next..(next + Len(pending) - 1) |-> pending[t - next + 1]])

\* the bookkeeping of a return from execute_workflow
Returned(w, value, created, before, after, nBefore) ==
    /\ lastCall' = [k |-> 1 - lastCall.k, wf |-> w, ret |-> value,
                    created |-> created, before |-> before, after |-> after,
                    tasksBefore |-> nBefore]
    /\ prevCall' = lastCall

\* ------------------------------------------------------------------- Init
Init ==
    /\ clock = 0
    /\ workflows = << >>
    /\ tasks = << >>
    /\ nextTaskId = 1
    /\ rules = << >>
    /\ ctx = "idle"
    /\ tickStep = "none"
    /\ dueWfs = << >>
    /\ pendQ = << >>
    /\ execQ = << >>
    /\ cur = NoCur
    /\ ssn = << >>
    /\ ssnDel = {}
    /\ frame = NoFrame
    /\ dbNew = << >>
    /\ lastCall = NoCall
    /\ prevCall = NoCall
    /\ invoked = NoInvoke
    /\ picks = << >>
    /\ loop = NoLoop
    /\ reports = << >>
    /\ running = FALSE
    /\ threads = << >>
    /\ joining = 0
    /\ alerts = << >>
    /\ evals = << >>
    /\ race = NoRace
    /\ reviews = << >>
    /\ nEvents = 0
    /\ curEvent = "none"
    /\ ruleQ = << >>
    /\ fired = << >>
    /\ fireLog = << >>

ForgetCalls == lastCall' = NoCall /\ prevCall' = NoCall

\* time passes while no handler runs
AdvanceClock(d, limit) ==
    /\ ctx = "idle"
    /\ clock + d <= limit
    /\ clock' = clock + d
    /\ ForgetCalls
    /\ UNCHANGED <<storeVars, ctlVars, invoked, ruleVars, picks, loop, reports,
                   schedVars, alertVars, race>>

\* ---------------------------------------------------- routes/automation.py
\* create_workflow (routes/automation.py:31-54); ids = the ids the store
\* may hand out
CreateWorkflowIn(ids, ttype, tcfg, acts, maxExec) ==
    /\ ctx = "idle"
    /\ NextId(workflows) \in ids
    /\ LET id == NextId(workflows)
           row == [ status          |-> "active",
                    trigger_type    |-> ttype,
                    trigger_config  |-> tcfg,
                    actions         |-> acts,
                    max_executions  |-> maxExec,
                    execution_count |-> 0,
                    last_execution  |-> None,
                    next_execution  |-> None ]
           sched == IF ttype = "schedule"
                    THEN [row EXCEPT !.next_execution = CalculateNextExecution(row, clock)]
                    ELSE row
       IN  workflows' = Merge(workflows, [x \in {id} |-> sched])
    /\ ForgetCalls
    /\ UNCHANGED <<clock, tasks, nextTaskId, ctlVars, invoked, ruleVars, picks, loop,
                   reports, schedVars, alertVars, race>>

CreateWorkflow(ttype, tcfg, acts, maxExec) ==
    CreateWorkflowIn(WorkflowIds, ttype, tcfg, acts, maxExec)

\* UpdateWorkflow that also rewrites the Pending tasks of the workflow from
\* the first action of a new actions list
UpdateWorkflowAndTasks(w, key, val) ==
    /\ ctx = "idle"
    /\ w \in DOMAIN workflows
    /\ LET wf == workflows[w]
           edited ==
             CASE key = "status"         -> [wf EXCEPT !.status = val]
               [] key = "trigger_config" -> [wf EXCEPT !.trigger_config = val]
               [] key = "actions"        -> [wf EXCEPT !.actions = val]
               [] key = "max_executions" -> [wf EXCEPT !.max_executions = val]
           recalc == IF key = "trigger_config" /\ edited.trigger_type = "schedule"
                     THEN [edited EXCEPT !.next_execution = CalculateNextExecution(edited, clock)]
                     ELSE edited
       IN  workflows' = [workflows EXCEPT ![w] = recalc]
    /\ tasks' = [t \in DOMAIN tasks |->
                   IF /\ key = "actions" /\ val # << >>
                      /\ tasks[t].workflow_id = w /\ tasks[t].status = "pending"
                   THEN [tasks[t] EXCEPT !.action_type = val[1].type,
                                         !.action_config = val[1].config]
                   ELSE tasks[t]]
    /\ ForgetCalls
    /\ UNCHANGED <<clock, nextTaskId, ctlVars, invoked, ruleVars, picks, loop,
                   reports, schedVars, alertVars, race>>

\* update_workflow (routes/automation.py:64-89); key names the one key of the
\* request body, val its value
UpdateWorkflow(w, key, val) ==
    /\ ctx = "idle"
    /\ w \in DOMAIN workflows
    /\ LET wf == workflows[w]
           edited ==
             CASE key = "status"         -> [wf EXCEPT !.status = val]
               [] key = "trigger_config" -> [wf EXCEPT !.trigger_config = val]
               [] key = "actions"        -> [wf EXCEPT !.actions = val]
               [] key = "max_executions" -> [wf EXCEPT !.max_executions = val]
           recalc == IF key = "trigger_config" /\ edited.trigger_type = "schedule"
                     THEN [edited EXCEPT !.next_execution = CalculateNextExecution(edited, clock)]
                     ELSE edited
       IN  workflows' = [workflows EXCEPT ![w] = recalc]
    /\ ForgetCalls
    /\ UNCHANGED <<clock, tasks, nextTaskId, ctlVars, invoked, ruleVars, picks, loop,
                   reports, schedVars, alertVars, race>>

\* delete_workflow (routes/automation.py:99-115): the row is deleted, and
\* with it the tasks of the workflow (cascade of automation.py:64)
DeleteWorkflow(w) ==
    /\ ctx = "idle"
    /\ w \in DOMAIN workflows
    /\ workflows' = Restrict(workflows, (DOMAIN workflows) \ {w})
    /\ LET kept == { t \in DOMAIN tasks : tasks[t].workflow_id # w }
       IN  /\ tasks' = Restrict(tasks, kept)
           /\ picks' = Restrict(picks, kept)
    /\ nextTaskId' = NextId(tasks')
    /\ ForgetCalls
    /\ invoked' = NoInvoke
    /\ UNCHANGED <<clock, ctlVars, ruleVars, loop,
                   reports, schedVars, alertVars, race>>

\* requests that pause, stop or resume a workflow
OwnerUpdate ==
    \E w \in DOMAIN workflows, v \in WorkflowStatus :
        UpdateWorkflow(w, "status", v)


\* --------------------------------------------- WorkflowEngine.execute_workflow
\* execute_workflow up to its commit at line 306, to an early return or to
\* the ValueError of line 294.  caller = "route": the request handler catches
\* the exception (routes/automation.py:140) and the request's teardown
\* removes db.session with the objects added to it; caller = "tick": the
\* exception is caught at scheduler.py:118 and db.session is left as it is.
ExecuteCore(w, caller) ==
    IF ~Eligible(w)
    THEN /\ Returned(w, "false", {}, RowOf(w), RowOf(w), nextTaskId)
         /\ UNCHANGED <<clock, storeVars, execQ, frame, dbNew, picks, reports,
                   schedVars, alertVars, race>>
    ELSE LET wf == workflows[w]
             n == Len(wf.actions)
             bad == BadIndex(wf.actions)
             base == nextTaskId + Len(dbNew)
             ids == base..(base + n - 1)
         IN  IF bad > 0
             THEN /\ \E r \in (IF bad = 1 THEN {<<clock>>} ELSE Reads(bad - 1, clock)) :
                       LET added == [i \in 1..(bad - 1) |-> NewTask(w, wf.actions[i], r[i])]
                       IN  /\ r[Len(r)] <= MaxClock
                           /\ base + Len(added) - 1 <= MaxTasks
                           /\ clock' = r[Len(r)]
                           /\ dbNew' = IF caller = "route" THEN << >>
                                       ELSE dbNew \o added
                  /\ Returned(w, "raise", {}, wf, wf, nextTaskId)
                  /\ UNCHANGED <<storeVars, execQ, frame, picks, reports, schedVars, alertVars, race>>
             ELSE /\ base + n - 1 <= MaxTasks
                  /\ wf.execution_count < MaxExec
                  /\ \E r \in Reads(n + 2, clock) :
                       /\ r[n + 2] <= MaxClock
                       /\ clock' = r[n + 2]
                       /\ tasks' = Merge(Flushed(tasks, dbNew, nextTaskId),
                             [t \in ids |-> NewTask(w, wf.actions[t - base + 1],
                                                    r[t - base + 1])])
                       /\ workflows' = [workflows EXCEPT
                             ![w] = TrackExecution(wf, r[n + 1], r[n + 2])]
                  /\ nextTaskId' = base + n
                  /\ dbNew' = << >>
                  /\ picks' = Merge(picks, [t \in nextTaskId..(base + n - 1) |-> 0])
                  /\ IF n = 0
                     THEN /\ Returned(w, "true", {}, wf, workflows'[w], base)
                          /\ UNCHANGED <<execQ, frame, reports, schedVars, alertVars, race>>
                     ELSE /\ execQ' = [i \in 1..n |-> base + i - 1]
                          /\ frame' = [active |-> TRUE, wf |-> w, created |-> ids,
                                       before |-> wf, tasksBefore |-> base]
                          /\ UNCHANGED <<lastCall, prevCall, reports, schedVars, alertVars, race>>

\* execute_workflow called on a request thread
\* (routes/automation.py:127 and any other caller of the engine)
Execute(w) ==
    /\ ctx = "idle"
    /\ ExecuteCore(w, "route")
    /\ ctx' = IF frame'.active THEN "request" ELSE "idle"
    /\ UNCHANGED <<tickStep, dueWfs, pendQ, cur, ssn, ssnDel, invoked, ruleVars, loop,
                   reports, schedVars, alertVars, race>>

\* RestDue with the loop left at the first exception
RestDueUntilRaise(queue, ret) ==
    IF ret = "raise" THEN << >> ELSE Tail(queue)

\* the workflows _check_scheduled_workflows still has to visit once the call
\* for the first one has returned ret or raised: the try block of
\* scheduler.py:107-119 is inside the for loop
RestDue(queue, ret) == Tail(queue)

\* _check_scheduled_workflows, loop body (scheduler.py:106-119)
TickExecute ==
    /\ ctx = "tick" /\ tickStep = "workflows"
    /\ dueWfs # << >> /\ ~frame.active
    /\ ExecuteCore(Head(dueWfs), "tick")
    /\ dueWfs' = IF frame'.active THEN dueWfs ELSE RestDue(dueWfs, lastCall'.ret)
    /\ UNCHANGED <<ctx, tickStep, pendQ, cur, ssn, ssnDel, invoked, ruleVars, loop,
                   reports, schedVars, alertVars, race>>

\* ------------------------------------------------ WorkflowEngine._execute_task
\* lines 345-347 for a task of the running execute_workflow: the row belongs
\* to db.session, so the commit of line 347 writes status and started_at to
\* the store; the commit expires the object
TaskStartDb ==
    /\ frame.active /\ execQ # << >> /\ cur.tid = 0
    /\ LET t == Head(execQ)
       IN  /\ tasks' = [tasks EXCEPT ![t].status = "running",
                                     ![t].started_at = clock]
           /\ cur' = [tid |-> t, via |-> "db", row |-> NoRow]
           /\ picks' = [picks EXCEPT ![t] = @ + 1]
    /\ UNCHANGED <<clock, workflows, nextTaskId, ctx, tickStep, dueWfs, pendQ,
                   execQ, ssn, ssnDel, frame, dbNew, obsVars, ruleVars, loop,
                   reports, schedVars, alertVars, race>>

\* line 352 for a task of the running execute_workflow: task.action_type is
\* the first attribute read after the commit of line 347, so the expired
\* object is loaded from the store again; the thread now stands before the
\* handler call with the values it has read
TaskLoadDb ==
    /\ cur.tid # 0 /\ cur.via = "db" /\ cur.row = NoRow
    /\ cur.tid \in DOMAIN tasks
    /\ cur' = [cur EXCEPT !.row = tasks[cur.tid]]
    /\ UNCHANGED <<clock, storeVars, ctx, tickStep, dueWfs, pendQ, execQ, ssn,
                   ssnDel, frame, dbNew, obsVars, ruleVars, picks, loop,
                   reports, schedVars, alertVars, race>>

\* lines 345-347 for a task loaded by _process_pending_tasks: the row belongs
\* to the scheduler's own session, which db.session.commit() does not commit;
\* what line 347 commits is whatever this thread's db.session still holds
TaskStartSched ==
    /\ ctx = "tick" /\ tickStep = "pending"
    /\ pendQ # << >> /\ cur.tid = 0
    /\ LET t == Head(pendQ)
       IN  /\ ssn' = [ssn EXCEPT ![t] = StartTask(@, clock)]
           /\ cur' = [tid |-> t, via |-> "sched", row |-> ssn'[t]]
           /\ picks' = [Merge(picks, [u \in nextTaskId..(nextTaskId + Len(dbNew) - 1) |-> 0])
                           EXCEPT ![t] = @ + 1]
    /\ tasks' = Flushed(tasks, dbNew, nextTaskId)
    /\ nextTaskId' = nextTaskId + Len(dbNew)
    /\ dbNew' = << >>
    /\ UNCHANGED <<clock, workflows, ctx, tickStep, dueWfs, pendQ, execQ,
                   ssnDel, frame, obsVars, ruleVars, loop, reports,
                   schedVars, alertVars, race>>

\* session.commit() writes an UPDATE of the attributes the session changed on
\* an object since it loaded it
ApplyChanges(stored, loaded, obj) ==
    [f \in DOMAIN obj |-> IF obj[f] # loaded[f] THEN obj[f] ELSE stored[f]]

\* Outcome with the except block of lines 364-373 left out
OutcomeFailureLost(row, ok, t1, t2) ==
    IF ok THEN CompleteTask(row, t1) ELSE row

\* the outcome written by lines 349-375; ok = the handler did not raise,
\* t1 = the utcnow() of line 362 or 367, t2 = the utcnow() of line 373
Outcome(row, ok, t1, t2) ==
    IF ok THEN CompleteTask(row, t1) ELSE FailTask(row, t1, t2)

\* _execute_task, lines 353-375, and the return to its caller.  The bodies
\* of the three handlers (lines 377-396) are placeholders ("Implement ...
\* logic"); whether a handler call raises is an input of the step.  A kind
\* without a handler runs no code inside the try block that can raise.
\* The outcome is computed from the values the thread holds (cur.row), and
\* the commit of line 375 writes the attributes it has changed on them.
TaskFinish(ok) ==
    /\ cur.tid # 0 /\ cur.row # NoRow
    /\ cur.via = "db" => cur.tid \in DOMAIN tasks
    /\ LET t == cur.tid
           row == cur.row
           handled == row.action_type \in HandledActionTypes
       IN  /\ (~ok) => handled
           /\ \E r \in Reads(3, clock) :
                LET t1 == r[2]
                    t2 == r[3]
                    new == Outcome(row, ok, t1, t2)
                    retried == new.status = "pending"
                IN  /\ (~retried) => t2 = t1
                    /\ t2 <= MaxClock
                    /\ clock' = t2
                    /\ IF cur.via = "db"
                       THEN /\ tasks' = [tasks EXCEPT
                                      ![t] = ApplyChanges(@, row, new)]
                            /\ ssn' = ssn
                       ELSE ssn' = [ssn EXCEPT ![t] = new] /\ tasks' = tasks
                    /\ picks' = IF retried THEN [picks EXCEPT ![t] = 0] ELSE picks
           /\ invoked' = IF handled THEN [tid |-> t, before |-> row.status]
                         ELSE invoked
    /\ cur' = NoCur
    /\ IF cur.via = "db"
       THEN /\ execQ' = Tail(execQ)
            /\ pendQ' = pendQ
            /\ IF Tail(execQ) = << >>
               THEN /\ Returned(frame.wf, "true", frame.created, frame.before,
                                workflows[frame.wf], frame.tasksBefore)
                    /\ frame' = NoFrame
                    /\ ctx' = IF ctx = "request" THEN "idle" ELSE ctx
                    /\ dueWfs' = IF ctx = "tick" THEN RestDue(dueWfs, "true")
                                  ELSE dueWfs
               ELSE UNCHANGED <<lastCall, prevCall, frame, ctx, dueWfs, reports, schedVars,
                   alertVars, race>>
       ELSE /\ pendQ' = Tail(pendQ)
            /\ UNCHANGED <<execQ, lastCall, prevCall, frame, ctx, dueWfs, reports,
                   schedVars, alertVars, race>>
    /\ UNCHANGED <<workflows, nextTaskId, tickStep, ssnDel, dbNew, ruleVars, loop,
                   reports, schedVars, alertVars, race>>


\* ------------------------------------------------------- AutomationScheduler
Min(a, b) == IF a <= b THEN a ELSE b

\* the results a query without ORDER BY may return for the row set S when at
\* most lim rows are asked for: any lim rows of S in any order
QueryResults(S, lim) ==
    LET k == Min(Cardinality(S), lim)
    IN  { q \in [1..k -> S] : \A i, j \in 1..k : i # j => q[i] # q[j] }

\* the rows of the set T of task ids by ascending id
ById(T) ==
    LET InT(i) == i \in T
    IN  SelectSeq([i \in 1..(nextTaskId - 1) |-> i], InT)

\* QueryResults with one result for every set of rows the query may return,
\* its rows by ascending id: what the for loop over the result does to one
\* row does not depend on the rows before it
QueryResultsById(S, lim) ==
    { ById(T) : T \in { U \in SUBSET S : Cardinality(U) = Min(Cardinality(S), lim) } }

\* filter of _check_scheduled_workflows (scheduler.py:100-104)
DueWorkflows(now) ==
    { w \in DOMAIN workflows :
        /\ workflows[w].status = "active"
        /\ workflows[w].trigger_type = "schedule"
        /\ workflows[w].next_execution # None
        /\ workflows[w].next_execution <= now }

\* filter of _process_pending_tasks (scheduler.py:126-129)
DuePending(now) ==
    { t \in DOMAIN tasks :
        /\ tasks[t].status = "pending"
        /\ tasks[t].scheduled_at <= now }

\* OldTasks without the test on the status
OldTasksAnyStatus(seen, now) ==
    { t \in DOMAIN seen :
        /\ seen[t].completed_at # None
        /\ seen[t].completed_at < now - RetentionMinutes }

\* OldTasks with the cutoff itself included (<= for <)
OldTasksAtCutoff(seen, now) ==
    { t \in DOMAIN seen :
        /\ seen[t].status \in {"completed", "failed"}
        /\ seen[t].completed_at # None
        /\ seen[t].completed_at <= now - RetentionMinutes }

\* filter of _cleanup_old_tasks (scheduler.py:319-324) over the rows the
\* scheduler session sees (its own flushed changes included)
OldTasks(seen, now) ==
    { t \in DOMAIN seen :
        /\ seen[t].status \in {"completed", "failed"}
        /\ seen[t].completed_at # None
        /\ seen[t].completed_at < now - RetentionMinutes }

\* _run_scheduler opens a session and _check_scheduled_workflows runs its
\* query (scheduler.py:60-66, 97-104)
TickStart ==
    /\ ctx = "idle"
    /\ ctx' = "tick"
    /\ tickStep' = "workflows"
    /\ \E q \in QueryResults(DueWorkflows(clock), Cardinality(DOMAIN workflows)) :
         dueWfs' = q
    /\ ForgetCalls
    /\ UNCHANGED <<clock, storeVars, pendQ, execQ, cur, ssn, ssnDel, frame,
                   dbNew, invoked, ruleVars, picks, loop, reports,
                   schedVars, alertVars, race>>

\* _process_pending_tasks runs its query (scheduler.py:123-129); the rows are
\* loaded into the scheduler session
TickSelectPendingFrom(results) ==
    /\ ctx = "tick" /\ tickStep = "workflows"
    /\ dueWfs = << >> /\ ~frame.active
    /\ tickStep' = "pending"
    /\ \E q \in results :
         /\ pendQ' = q
         /\ ssn' = [t \in Range(q) |-> tasks[t]]
    /\ UNCHANGED <<clock, storeVars, ctx, dueWfs, execQ, cur, ssnDel, frame,
                   dbNew, obsVars, ruleVars, picks, loop, reports,
                   schedVars, alertVars, race>>

\* filter of _check_scheduled_reports (scheduler.py:144-147)
DueReports(now) ==
    { r \in DOMAIN reports :
        /\ reports[r].is_active
        /\ reports[r].next_generation # None
        /\ reports[r].next_generation <= now }

\* filter of _check_alert_rules (scheduler.py:184-190)
SelectedAlerts(now) ==
    { a \in DOMAIN alerts :
        /\ alerts[a].is_active
        /\ \/ alerts[a].last_check = None
           \/ alerts[a].last_check <= now - AlertGateMinutes }

\* the rest of the tick with no scheduled report due and no alert rule to
\* check: _cleanup_old_tasks, session.commit(), session.close(), and the end
\* of the app context, which removes db.session (scheduler.py:62, 72-86,
\* 317-330)
TickFinish ==
    /\ ctx = "tick" /\ tickStep = "pending"
    /\ pendQ = << >> /\ cur.tid = 0
    /\ DueReports(clock) = {}
    /\ SelectedAlerts(clock) = {}
    /\ LET seen == Merge(tasks, ssn)
           old == OldTasks(seen, clock)
       IN  /\ tasks' = [t \in (DOMAIN seen) \ old |-> seen[t]]
           /\ picks' = Restrict(picks, (DOMAIN seen) \ old)
    /\ nextTaskId' = NextId(tasks')
    /\ ssn' = << >>
    /\ ssnDel' = {}
    /\ dbNew' = << >>
    /\ ctx' = "idle"
    /\ tickStep' = "none"
    /\ UNCHANGED <<clock, workflows, dueWfs, pendQ, execQ, cur,
                   frame, obsVars, ruleVars, loop, reports,
                   schedVars, alertVars, race>>

\* the rest of the tick with a scheduled report due: _check_scheduled_reports
\* adds WorkflowTask(workflow_id=None, ...) to the session for it
\* (scheduler.py:154-167); workflow_tasks.workflow_id is NOT NULL
\* (automation.py:89), so the flush of that row, run by the session before
\* the query of _check_alert_rules (scheduler.py:184), raises; none of the
\* per-item handlers encloses that query, the exception reaches
\* scheduler.py:82 and session.rollback() drops everything the session had
\* not committed: the task changes of _process_pending_tasks and the report
\* bookkeeping. _check_alert_rules and _cleanup_old_tasks do not run. The
\* tasks the session had loaded are Pending again.
TickRollback ==
    /\ ctx = "tick" /\ tickStep = "pending"
    /\ pendQ = << >> /\ cur.tid = 0
    /\ DueReports(clock) # {}
    /\ ssn' = << >>
    /\ ssnDel' = {}
    /\ dbNew' = << >>
    /\ ctx' = "idle"
    /\ tickStep' = "none"
    /\ picks' = [t \in DOMAIN picks |-> IF t \in DOMAIN ssn THEN 0 ELSE picks[t]]
    /\ UNCHANGED <<clock, storeVars, dueWfs, pendQ, execQ, cur, frame, obsVars,
                   ruleVars, loop, reports, schedVars, alertVars, race>>

\* _get_recent_negative_ratio(...) >= pct / 100 (scheduler.py:287-303, 256):
\* the ratio is 0 when there is no review, else negative / total
NegativeRatioAtLeast(m, pct) ==
    IF m.total = 0 THEN 0 >= pct
    ELSE m.negative * 100 >= pct * m.total

\* Evaluate with > for >= in the review_volume branch
EvaluateStrictVolume(rule, m) ==
    CASE rule.metric_type = "rating_drop" ->
            /\ Truthy(m.recent) /\ Truthy(m.previous)
            /\ m.previous - m.recent
                 >= GetOr(rule.threshold_config.drop_threshold, DefaultDropThreshold)
      [] rule.metric_type = "review_volume" ->
            m.count > GetOr(rule.threshold_config.volume_threshold,
                            DefaultVolumeThreshold)
      [] rule.metric_type = "negative_sentiment" ->
            NegativeRatioAtLeast(m,
                GetOr(rule.threshold_config.negative_ratio_threshold,
                      DefaultNegativePercent))
      [] OTHER -> FALSE

\* _evaluate_alert_rule (scheduler.py:227-263) when the queries of the metric
\* helpers return m
Evaluate(rule, m) ==
    CASE rule.metric_type = "rating_drop" ->
            /\ Truthy(m.recent) /\ Truthy(m.previous)
            /\ m.previous - m.recent
                 >= GetOr(rule.threshold_config.drop_threshold, DefaultDropThreshold)
      [] rule.metric_type = "review_volume" ->
            m.count >= GetOr(rule.threshold_config.volume_threshold,
                             DefaultVolumeThreshold)
      [] rule.metric_type = "negative_sentiment" ->
            NegativeRatioAtLeast(m,
                GetOr(rule.threshold_config.negative_ratio_threshold,
                      DefaultNegativePercent))
      [] OTHER -> FALSE

\* the metric types for which _evaluate_alert_rule runs queries of the
\* scheduler session (scheduler.py:233, 243, 251)
MetricTypes == {"rating_drop", "review_volume", "negative_sentiment"}

\* one call of _evaluate_alert_rule with its handler (scheduler.py:227-263):
\* "true" or "false" when the call returns, "raise" when an exception leaves
\* it.  q.raises: a query of the metric helpers raises, else the queries
\* return q.metrics.  unflushed: the session holds the task added for a rule
\* that fired earlier in the tick (scheduler.py:203-215); the first metric
\* query then flushes that row, workflow_tasks.workflow_id is NOT NULL
\* (automation.py:89), the flush raises and leaves the session with a
\* transaction that is rolled back and with its objects expired, so the
\* handler of line 261 raises again when it reads rule.name (line 262).
EvaluateAlertRule(rule, q, unflushed) ==
    IF rule.metric_type \notin MetricTypes THEN "false"
    ELSE IF unflushed THEN "raise"
    ELSE IF q.raises THEN "false"
    ELSE IF Evaluate(rule, q.metrics) THEN "true" ELSE "false"

\* no result of the metric queries
NoMetrics == [none |-> TRUE]

\* the queries of one call of _evaluate_alert_rule return m
Returns(m) == [raises |-> FALSE, metrics |-> m]

\* a query of one call of _evaluate_alert_rule raises
Raises == [raises |-> TRUE, metrics |-> NoMetrics]

\* the bookkeeping of _check_alert_rules for one rule (scheduler.py:216-222)
CheckAlert(row, alert, now) ==
    IF alert
    THEN [row EXCEPT !.last_triggered = now, !.trigger_count = @ + 1,
                     !.last_check = now]
    ELSE [row EXCEPT !.last_check = now]

\* the arguments and the result of a call of _evaluate_alert_rule: the
\* fields of the rule it reads, what the metric queries did (raised = one
\* of them raised), whether an exception left the call (escaped), and the
\* value returned; NoEval before the first call
RuleRead(row) ==
    [metric_type |-> row.metric_type, threshold_config |-> row.threshold_config]

NoEval == [at |-> None, rule |-> NoRow, metrics |-> NoMetrics,
           raised |-> FALSE, escaped |-> FALSE, result |-> FALSE]

\* the for loop of _check_alert_rules (scheduler.py:192-225) over the rules
\* in the order the query has returned them, qs[a] = what the metric queries
\* do in the evaluation of rule a: the outcome of the call of
\* _evaluate_alert_rule for the i-th rule, "none" when the loop does not get
\* to it.  An exception that leaves _evaluate_alert_rule reaches the handler
\* of line 224, which raises again when it reads rule.name (line 225), and
\* so leaves _check_alert_rules.
AlertOutcomes(order, qs) ==
    LET n == Len(order)
        Alone(i) == EvaluateAlertRule(alerts[order[i]], qs[order[i]], FALSE)
        firingAt == { i \in 1..n : Alone(i) = "true" }
        f == IF firingAt = {} THEN 0
             ELSE CHOOSE i \in firingAt : \A j \in firingAt : i <= j
        Out(i) == EvaluateAlertRule(alerts[order[i]], qs[order[i]],
                                    f > 0 /\ i > f)
        raisingAt == { i \in 1..n : Out(i) = "raise" }
        e == IF raisingAt = {} THEN 0
             ELSE CHOOSE i \in raisingAt : \A j \in raisingAt : i <= j
    IN  [i \in 1..n |-> IF e > 0 /\ i > e THEN "none" ELSE Out(i)]

\* the rest of the tick with no scheduled report due and alert rules to
\* check (scheduler.py:75-86, 179-225); qs[a] = what the metric queries do
\* in the evaluation of rule a.  The query of line 184 has no ORDER BY.
\* When no rule fires, last_check is set on every rule checked, old tasks are
\* deleted and the session is committed.  When a rule fires,
\* WorkflowTask(workflow_id=None, ...) is added to the session for it
\* (scheduler.py:203-215); workflow_tasks.workflow_id is NOT NULL
\* (automation.py:89), so the flush of that row raises: before the first
\* metric query of a later rule, where the exception leaves
\* _check_alert_rules and the rules after that one are not evaluated, or
\* else before the query of _cleanup_old_tasks (scheduler.py:321).
\* session.rollback() (scheduler.py:84) then drops the task, the bookkeeping
\* of every rule checked and the task changes of _process_pending_tasks.
TickAlertsWith(qs) ==
    /\ ctx = "tick" /\ tickStep = "pending"
    /\ pendQ = << >> /\ cur.tid = 0
    /\ DueReports(clock) = {}
    /\ SelectedAlerts(clock) # {}
    /\ \E order \in QueryResults(SelectedAlerts(clock),
                                  Cardinality(SelectedAlerts(clock))) :
       LET sel    == SelectedAlerts(clock)
           out    == AlertOutcomes(order, qs)
           Of(a)  == out[CHOOSE i \in 1..Len(order) : order[i] = a]
           firing == { a \in sel : Of(a) = "true" }
           seen   == Merge(tasks, ssn)
           old    == OldTasks(seen, clock)
       IN  /\ evals' = [a \in DOMAIN alerts |->
                          IF a \in sel /\ Of(a) # "none"
                          THEN LET failed == \/ Of(a) = "raise"
                                             \/ /\ qs[a].raises
                                                /\ alerts[a].metric_type \in MetricTypes
                               IN  [at |-> clock, rule |-> RuleRead(alerts[a]),
                                    metrics |-> IF failed THEN NoMetrics
                                                ELSE qs[a].metrics,
                                    raised |-> failed,
                                    escaped |-> Of(a) = "raise",
                                    result |-> Of(a) = "true"]
                          ELSE evals[a]]
           /\ IF firing = {}
              THEN /\ alerts' = [a \in DOMAIN alerts |->
                                   IF a \in sel
                                   THEN CheckAlert(alerts[a], FALSE, clock)
                                   ELSE alerts[a]]
                   /\ tasks' = [t \in (DOMAIN seen) \ old |-> seen[t]]
                   /\ picks' = Restrict(picks, (DOMAIN seen) \ old)
              ELSE /\ alerts' = alerts
                   /\ tasks' = tasks
                   /\ picks' = [t \in DOMAIN picks |->
                                   IF t \in DOMAIN ssn THEN 0 ELSE picks[t]]
    /\ nextTaskId' = NextId(tasks')
    /\ ssn' = << >>
    /\ ssnDel' = {}
    /\ dbNew' = << >>
    /\ ctx' = "idle"
    /\ tickStep' = "none"
    /\ UNCHANGED <<clock, workflows, dueWfs, pendQ, execQ, cur,
                   frame, obsVars, ruleVars, loop, reports, schedVars, reviews, race>>

\* the same when the metric queries return m in every evaluation
TickAlerts(m) == TickAlertsWith([a \in DOMAIN alerts |-> Returns(m)])

\* ------------------------------------------------- the review metrics
\* sum of the ratings of the rows S of revs
RECURSIVE SumRatings(_, _)
SumRatings(revs, S) ==
    IF S = {} THEN 0
    ELSE LET r == CHOOSE x \in S : TRUE
         IN  revs[r].rating + SumRatings(revs, S \ {r})

\* func.avg(Review.rating) over created_at >= lo and created_at <= hi,
\* then float(result) if result else None (scheduler.py:268-275), in
\* sixtieths of a star: the mean of up to 6 rows is a whole number of them
MeanRating(revs, lo, hi) ==
    LET S == { r \in DOMAIN revs :
                 revs[r].created_at >= lo /\ revs[r].created_at <= hi }
    IN  IF S = {} \/ SumRatings(revs, S) = 0 THEN None
        ELSE (60 * SumRatings(revs, S)) \div Cardinality(S)

\* _get_recent_average_rating (scheduler.py:263-275)
AverageRating(revs, now, days, offset_days) ==
    LET end_date   == now - offset_days * DayMinutes
        start_date == end_date - days * DayMinutes
    IN  MeanRating(revs, start_date, end_date)

\* _get_recent_review_count (scheduler.py:277-285)
ReviewCount(revs, now, hours) ==
    Cardinality({ r \in DOMAIN revs :
                    revs[r].created_at >= now - hours * HourMinutes })

\* what the metric helpers return over the rows revs at time now, with the
\* arguments of _evaluate_alert_rule (scheduler.py:235-236, 245, 287-294);
\* the count of negative reviews is not part of it
ReviewMetrics(revs, now) ==
    [ count    |-> ReviewCount(revs, now, 1),
      total    |-> ReviewCount(revs, now, 24),
      recent   |-> AverageRating(revs, now, 1, 0),
      previous |-> AverageRating(revs, now, 7, 1) ]

\* the rest of a tick that evaluates the alert rules over the reviews of the
\* store
TickReviews ==
    /\ ctx = "tick" /\ tickStep = "pending"
    /\ TickAlerts(ReviewMetrics(reviews, clock))

\* the reviews rows seed_sample_data inserts; r[2], r[3], r[4] = the
\* utcnow() reads of the created_at defaults (models/review.py:35)
SeedRows(r) ==
    [i \in 1..Len(SeedRatings) |-> [created_at |-> r[i + 1], rating |-> SeedRatings[i]]]

\* seed_sample_data (routes/review.py:388-466), the one handler that writes
\* reviews rows: it deletes every row and inserts three.  (sync_reviews,
\* routes/platform_sync.py:80-111, and seed_demo_data, main.py:63-131, name
\* columns the class Review does not have and insert nothing.)
SeedSampleData ==
    /\ ctx = "idle"
    /\ \E r \in Reads(Len(SeedRatings) + 1, clock) :
         /\ r[Len(r)] <= MaxClock
         /\ clock' = r[Len(r)]
         /\ reviews' = SeedRows(r)
    /\ ForgetCalls
    /\ UNCHANGED <<storeVars, ctlVars, invoked, ruleVars, picks, loop,
                   reports, schedVars, alerts, evals, race>>

\* create_alert_rule (routes/automation.py:385-413); ids = the ids the
\* store may hand out
CreateAlertIn(ids, inp) ==
    /\ ctx = "idle"
    /\ NextId(alerts) \in ids
    /\ LET id == NextId(alerts)
       IN  /\ alerts' = Merge(alerts, [a \in {id} |->
                  [is_active |-> TRUE, metric_type |-> inp.metric_type,
                   threshold_config |-> inp.threshold_config,
                   last_triggered |-> None, trigger_count |-> 0,
                   last_check |-> None]])
           /\ evals' = Merge(evals, [a \in {id} |-> NoEval])
    /\ ForgetCalls
    /\ UNCHANGED <<clock, storeVars, ctlVars, invoked, ruleVars, picks, loop,
                   reports, schedVars, reviews, race>>

CreateAlert(inp) == CreateAlertIn(AlertIds, inp)

\* update_alert_rule (routes/automation.py:415-446); active and inp are
\* what data.get(key, <the value of the row>) gives for the keys is_active,
\* metric_type and threshold_config: the value of the request body, or the
\* value the row has when the body does not hold the key
UpdateAlert(a, active, inp) ==
    /\ ctx = "idle"
    /\ a \in DOMAIN alerts
    /\ alerts' = [alerts EXCEPT ![a].is_active = active,
                                ![a].metric_type = inp.metric_type,
                                ![a].threshold_config = inp.threshold_config]
    /\ ForgetCalls
    /\ UNCHANGED <<clock, storeVars, ctlVars, invoked, ruleVars, picks, loop,
                   reports, schedVars, evals, reviews, race>>

\* delete_alert_rule (routes/automation.py:448-464)
DeleteAlert(a) ==
    /\ ctx = "idle"
    /\ a \in DOMAIN alerts
    /\ alerts' = Restrict(alerts, (DOMAIN alerts) \ {a})
    /\ evals' = Restrict(evals, (DOMAIN alerts) \ {a})
    /\ ForgetCalls
    /\ UNCHANGED <<clock, storeVars, ctlVars, invoked, ruleVars, picks, loop,
                   reports, schedVars, reviews, race>>

\* calculate_next_schedule_time (routes/automation.py:602-612); cfg is the
\* schedule_config, of which the function reads interval_minutes
CalculateNextScheduleTime(stype, cfg, now) ==
    IF stype = "interval"
    THEN now + GetOr(cfg.interval_minutes, DefaultIntervalMinutes)
    ELSE IF stype = "cron" THEN now + CronStubMinutes
    ELSE None

\* create_scheduled_report (routes/automation.py:274-310) with the
\* schedule_type and the schedule_config of the body
CreateReport(stype, cfg) ==
    /\ ctx = "idle"
    /\ NextId(reports) \in ReportIds
    /\ reports' = Merge(reports,
           [r \in {NextId(reports)} |->
               [is_active |-> TRUE, schedule_type |-> stype,
                schedule_config |-> cfg,
                last_generated |-> None,
                next_generation |-> CalculateNextScheduleTime(stype, cfg, clock),
                generation_count |-> 0]])
    /\ ForgetCalls
    /\ UNCHANGED <<clock, storeVars, ctlVars, invoked, ruleVars, picks, loop,
                   schedVars, alertVars, race>>

\* update_scheduled_report (routes/automation.py:311-350); active, stype
\* and cfg are what data.get(<key>, <the value of the row>) gives for
\* is_active, schedule_type and schedule_config; recalc = the body holds
\* schedule_config or schedule_type: next_generation is then calculated anew
\* from the schedule_type and schedule_config the row now has (lines 333-337)
UpdateReport(r, active, stype, cfg, recalc) ==
    /\ ctx = "idle"
    /\ r \in DOMAIN reports
    /\ (~recalc) => /\ stype = reports[r].schedule_type
                    /\ cfg = reports[r].schedule_config
    /\ reports' = [reports EXCEPT
           ![r].is_active = active,
           ![r].schedule_type = stype,
           ![r].schedule_config = cfg,
           ![r].next_generation =
                IF recalc THEN CalculateNextScheduleTime(stype, cfg, clock)
                ELSE @]
    /\ ForgetCalls
    /\ UNCHANGED <<clock, storeVars, ctlVars, invoked, ruleVars, picks, loop,
                   schedVars, alertVars, race>>

\* delete_scheduled_report (routes/automation.py:352-368)
DeleteReport(r) ==
    /\ ctx = "idle"
    /\ r \in DOMAIN reports
    /\ reports' = Restrict(reports, (DOMAIN reports) \ {r})
    /\ ForgetCalls
    /\ UNCHANGED <<clock, storeVars, ctlVars, invoked, ruleVars, picks, loop,
                   schedVars, alertVars, race>>

TickSelectPending ==
    TickSelectPendingFrom(QueryResults(DuePending(clock), PendingLimit))

\* ----------------------- execute_workflow on two threads at the same time
\* The request thread (routes/automation.py:127) and the scheduler thread
\* (scheduler.py:110) call execute_workflow with a db.session of their own
\* each.  A call is followed through five steps: the load of the row and the
\* fail-fast tests (automation.py:281-287), the commit of the new task and of
\* the tracking fields (lines 290-306), the first commit of _execute_task
\* (line 347), the load of the expired task (line 352), and the second
\* commit with the return (lines 375, 312).  The scheduler thread makes its
\* call after the query of _check_scheduled_workflows, a read of the
\* scheduler's own session, has found the workflow due; other threads may
\* commit between that query and the load.  When its loop over the due
\* workflows has ended (position "done") the scheduler thread goes on with
\* _process_pending_tasks (scheduler.py:69), which takes every due Pending
\* task of the store, those of a request thread's call in flight included.
RaceThreads == {"route", "tick"}

RaceWorkflow == 1

RaceActions == << [type |-> "generate_response", config |-> "cfgA"] >>

RaceCaps == {None, 1, 2}

\* a tick begins: the query of _check_scheduled_workflows (scheduler.py:98-106)
\* finds the workflow due, or finds nothing and the step is over
RaceQuery ==
    /\ race["tick"].pc = "idle" /\ loop.step = "sleep"
    /\ race' = [race EXCEPT !["tick"].pc =
                   IF RaceWorkflow \in DueWorkflows(clock) THEN "due" ELSE "done"]
    /\ UNCHANGED <<clock, storeVars, ctlVars, obsVars, ruleVars, picks, loop,
                   reports, schedVars, alertVars>>

\* the calls in flight: between the load of the row and the return
RaceInFlight == {"loaded", "dispatch", "started", "handler"}

\* the position of a thread whose call has returned
RaceReturned(th) == IF th = "tick" THEN "done" ELSE "idle"

\* Workflow.query.get and the two tests (automation.py:281-287): the call
\* returns False, or goes on with the row it has loaded.  The scheduler
\* thread calls for the workflow its query has found due (scheduler.py:110).
RaceLoad(th) ==
    /\ race[th].pc = IF th = "tick" THEN "due" ELSE "idle"
    /\ RaceWorkflow \in DOMAIN workflows
    /\ LET other == CHOOSE x \in RaceThreads : x # th
       IN  IF Eligible(RaceWorkflow)
           THEN race' = [race EXCEPT
                    ![th] = [pc |-> "loaded", seen |-> workflows[RaceWorkflow],
                             task |-> 0, row |-> NoRow],
                    !.overlapped = @ \/ race[other].pc \in RaceInFlight]
           ELSE race' = [race EXCEPT ![th].pc = RaceReturned(th)]
    /\ UNCHANGED <<clock, storeVars, ctlVars, obsVars, ruleVars, picks, loop,
                   reports, schedVars, alertVars>>

\* the task is added, the tracking fields are set on the loaded object and
\* db.session.commit() writes them (automation.py:290-306): the UPDATE
\* carries the values computed from the loaded row
RaceCommit(th) ==
    /\ race[th].pc = "loaded"
    /\ nextTaskId <= MaxTasks
    /\ race[th].seen.execution_count < MaxExec
    /\ \E r \in Reads(3, clock) :
         LET tracked == TrackExecution(race[th].seen, r[2], r[3])
         IN  /\ r[3] <= MaxClock
             /\ clock' = r[3]
             /\ tasks' = Merge(tasks, [t \in {nextTaskId} |->
                                         NewTask(RaceWorkflow, RaceActions[1], r[1])])
             /\ workflows' = [workflows EXCEPT ![RaceWorkflow] =
                   [@ EXCEPT !.execution_count = tracked.execution_count,
                             !.last_execution = tracked.last_execution,
                             !.next_execution = tracked.next_execution]]
    /\ picks' = Merge(picks, [t \in {nextTaskId} |-> 0])
    /\ race' = [race EXCEPT ![th].pc = "dispatch", ![th].task = nextTaskId]
    /\ nextTaskId' = nextTaskId + 1
    /\ UNCHANGED <<ctlVars, obsVars, ruleVars, loop, reports, schedVars, alertVars>>

\* _execute_task for the task of the call (automation.py:309-310), lines
\* 345-347: the commit of line 347 writes status and started_at and expires
\* the object
RaceTaskStart(th) ==
    /\ race[th].pc = "dispatch"
    /\ LET t == race[th].task
       IN  /\ tasks' = [tasks EXCEPT ![t].status = "running",
                                     ![t].started_at = clock]
           /\ picks' = [picks EXCEPT ![t] = @ + 1]
    /\ race' = [race EXCEPT ![th].pc = "started"]
    /\ UNCHANGED <<clock, workflows, nextTaskId, ctlVars, obsVars, ruleVars,
                   loop, reports, schedVars, alertVars>>

\* line 352: task.action_type is read, so the expired object is loaded from
\* the store again, with whatever another thread has committed to the row
\* since; the thread then stands before the handler call
RaceTaskLoad(th) ==
    /\ race[th].pc = "started"
    /\ race' = [race EXCEPT ![th].pc = "handler",
                            ![th].row = tasks[race[th].task]]
    /\ UNCHANGED <<clock, storeVars, ctlVars, obsVars, ruleVars, picks, loop,
                   reports, schedVars, alertVars>>

\* the handler returns (ok) or raises, lines 360-373 compute the outcome from
\* the values loaded at line 352, the commit of line 375 writes the
\* attributes changed on them and execute_workflow returns True (line 312)
RaceTaskFinish(th, ok) ==
    /\ race[th].pc = "handler"
    /\ LET t == race[th].task
           row == race[th].row
           handled == row.action_type \in HandledActionTypes
       IN  /\ (~ok) => handled
           /\ \E r \in Reads(3, clock) :
                LET new == Outcome(row, ok, r[2], r[3])
                    retried == new.status = "pending"
                IN  /\ (~retried) => r[3] = r[2]
                    /\ r[3] <= MaxClock
                    /\ clock' = r[3]
                    /\ tasks' = [tasks EXCEPT ![t] = ApplyChanges(@, row, new)]
                    /\ picks' = IF retried THEN [picks EXCEPT ![t] = 0] ELSE picks
           /\ invoked' = IF handled THEN [tid |-> t, before |-> row.status]
                         ELSE invoked
    /\ race' = [race EXCEPT ![th] = [NoRace[th] EXCEPT !.pc = RaceReturned(th)],
                            !.returnedTrue = @ + 1]
    /\ UNCHANGED <<workflows, nextTaskId, ctlVars, lastCall, prevCall, ruleVars,
                   loop, reports, schedVars, alertVars>>

\* -------------------------------- the scheduler loop beside request threads
\* The loop runs in a thread of its own (scheduler.py:45): its steps
\* interleave with those of a request thread that is inside execute_workflow.
\* _process_pending_tasks runs its query (scheduler.py:123-129) when
\* _check_scheduled_workflows has returned
LoopSelectPending ==
    /\ loop.step = "sleep" /\ race["tick"].pc = "done"
    /\ \E q \in QueryResults(DuePending(clock), PendingLimit) :
         loop' = [step |-> "pending", queue |-> q, cur |-> 0,
                  loaded |-> [t \in Range(q) |-> tasks[t]],
                  ssn |-> [t \in Range(q) |-> tasks[t]]]
    /\ UNCHANGED <<clock, storeVars, ctlVars, obsVars, ruleVars, picks, reports,
                   schedVars, alertVars, race>>

\* _execute_task, lines 345-347, called at scheduler.py:134
LoopTaskStart ==
    /\ loop.step = "pending" /\ loop.queue # << >> /\ loop.cur = 0
    /\ LET t == Head(loop.queue)
       IN  /\ loop' = [loop EXCEPT !.cur = t,
                                   !.ssn[t] = StartTask(@, clock)]
           /\ picks' = [picks EXCEPT ![t] = @ + 1]
    /\ UNCHANGED <<clock, storeVars, ctlVars, obsVars, ruleVars, reports,
                   schedVars, alertVars, race>>

\* _execute_task, lines 349-375, called at scheduler.py:134
LoopTaskFinish(ok) ==
    /\ loop.step = "pending" /\ loop.cur # 0
    /\ LET t == loop.cur
           row == loop.ssn[t]
           handled == row.action_type \in HandledActionTypes
       IN  /\ (~ok) => handled
           /\ \E r \in Reads(3, clock) :
                LET new == Outcome(row, ok, r[2], r[3])
                    retried == new.status = "pending"
                IN  /\ (~retried) => r[3] = r[2]
                    /\ r[3] <= MaxClock
                    /\ clock' = r[3]
                    /\ loop' = [loop EXCEPT !.cur = 0,
                                            !.queue = Tail(@),
                                            !.ssn[t] = new]
                    /\ picks' = IF retried THEN [picks EXCEPT ![t] = 0] ELSE picks
           /\ invoked' = IF handled THEN [tid |-> t, before |-> row.status]
                         ELSE invoked
    /\ UNCHANGED <<storeVars, ctlVars, lastCall, prevCall, ruleVars, reports,
                   schedVars, alertVars, race>>

\* the rest of the tick: _cleanup_old_tasks and session.commit()
\* (scheduler.py:78-86, 317-330)
LoopCommit ==
    /\ loop.step = "pending" /\ loop.queue = << >> /\ loop.cur = 0
    /\ LET seen == [t \in DOMAIN tasks |->
                       IF t \in DOMAIN loop.ssn
                       THEN ApplyChanges(tasks[t], loop.loaded[t], loop.ssn[t])
                       ELSE tasks[t]]
           old == OldTasks(seen, clock)
       IN  /\ tasks' = [t \in (DOMAIN seen) \ old |-> seen[t]]
           /\ picks' = Restrict(picks, (DOMAIN seen) \ old)
    /\ nextTaskId' = NextId(tasks')
    /\ loop' = NoLoop
    /\ race' = [race EXCEPT !["tick"].pc = "idle"]
    /\ UNCHANGED <<clock, workflows, ctlVars, obsVars, ruleVars,
                   reports, schedVars, alertVars>>

\* One scheduled workflow, executed by request threads at any time and by
\* the scheduler thread when a tick finds it due; every tick goes on with
\* its pending-task step and its commit.  The handler of the action
\* returns, as _execute_generate_response does (automation.py:377-382).
NextRace ==
    \/ \E d \in {DefaultIntervalMinutes} : AdvanceClock(d, MaxClock)
    \/ \E me \in RaceCaps :
          CreateWorkflow("schedule", [type |-> "interval", interval_minutes |-> None],
                         RaceActions, me)
    \/ RaceQuery
    \/ \E th \in RaceThreads : RaceLoad(th)
    \/ \E th \in RaceThreads : RaceCommit(th)
    \/ \E th \in RaceThreads : RaceTaskStart(th)
    \/ \E th \in RaceThreads : RaceTaskLoad(th)
    \/ \E th \in RaceThreads : RaceTaskFinish(th, TRUE)
    \/ LoopSelectPending
    \/ LoopTaskStart
    \/ LoopTaskFinish(TRUE)
    \/ LoopCommit

SpecRace == Init /\ [][NextRace]_vars

\* the steps of a started execute_workflow call or scheduler tick
EngineStep ==
    \/ TaskStartDb
    \/ TaskLoadDb
    \/ \E ok \in BOOLEAN : TaskFinish(ok)
    \/ TickStart
    \/ TickSelectPending
    \/ TaskStartSched
    \/ TickFinish

\* One workflow of every shape, its status edits and its executions by
\* request threads and by the scheduler.
Next ==
    \/ \E d \in ClockSteps : AdvanceClock(d, MaxClock)
    \/ \E tr \in Triggers, al \in ActionLists, me \in MaxExecutionsChoices :
            CreateWorkflow(tr.trigger_type, tr.trigger_config, al, me)
    \/ OwnerUpdate
    \/ \E w \in WorkflowIds \cup UnknownWorkflowIds : Execute(w)
    \/ TickExecute
    \/ EngineStep

Spec == Init /\ [][Next]_vars

\* The life of the task of one manually triggered one-shot workflow with a
\* single action: dispatch, failure, retry after the backoff, exhaustion, in
\* ticks that are committed (scheduler.py:80) and in ticks that are rolled
\* back (scheduler.py:82-84) because a scheduled report is due.  A tick in
\* which an alert rule fires is rolled back in the same way (TickAlertsWith).
NextTasks ==
    \/ \E d \in RetryClockSteps : AdvanceClock(d, MaxRetryClock)
    \/ \E al \in { l \in RetryActionLists : Len(l) = 1 } :
            CreateWorkflow("manual", [type |-> "none", interval_minutes |-> None],
                           al, 1)
    \/ \E i \in ReportIntervals : CreateReport("interval", [interval_minutes |-> i])
    \/ \E w \in WorkflowIds : Execute(w)
    \/ EngineStep
    \/ TickRollback

SpecTasks == Init /\ [][NextTasks]_vars

\* The same life with owner edits of the workflow's actions list and with
\* the deletion of the workflow, after which the next workflow created and
\* its tasks get the ids of the rows deleted.
NextEdits ==
    \/ \E d \in RetryClockSteps : AdvanceClock(d, MaxRetryClock)
    \/ \E al \in RetryActionLists :
            CreateWorkflow("manual", [type |-> "none", interval_minutes |-> None],
                           al, 1)
    \/ \E w \in WorkflowIds, al \in EditActionLists :
            UpdateWorkflow(w, "actions", al)
    \/ \E w \in WorkflowIds : DeleteWorkflow(w)
    \/ \E w \in WorkflowIds : Execute(w)
    \/ EngineStep

SpecEdits == Init /\ [][NextEdits]_vars

\* Scheduled workflows of which one may have an action of unknown kind:
\* their executions by the scheduler and by request threads.
NextFaults ==
    \/ \E d \in ClockSteps : AdvanceClock(d, MaxClock)
    \/ \E al \in FaultActionLists :
            CreateWorkflowIn(FaultWorkflowIds, "schedule",
                             [type |-> "interval", interval_minutes |-> 60], al, None)
    \/ \E w \in FaultWorkflowIds : Execute(w)
    \/ TickExecute
    \/ EngineStep

SpecFaults == Init /\ [][NextFaults]_vars

\* The tasks of a manually triggered one-shot workflow, retried by the
\* scheduler in ticks in which a scheduled report may be due.
NextReports ==
    \/ \E d \in RetryClockSteps : AdvanceClock(d, MaxReportClock)
    \/ \E al \in ReportActionLists :
            CreateWorkflow("manual", [type |-> "none", interval_minutes |-> None],
                           al, 1)
    \/ \E st \in ReportScheduleTypes, cfg \in ReportConfigs : CreateReport(st, cfg)
    \/ \E r \in ReportIds, v \in BOOLEAN, st \in ReportScheduleTypes,
          cfg \in ReportConfigs, recalc \in BOOLEAN :
            UpdateReport(r, v, st, cfg, recalc)
    \/ \E r \in ReportIds : DeleteReport(r)
    \/ \E w \in WorkflowIds : Execute(w)
    \/ EngineStep
    \/ TickRollback

SpecReports == Init /\ [][NextReports]_vars

\* More due Pending tasks than one tick takes, with or without a scheduled
\* report that is due.  execute_workflow has
\* committed the tasks of a workflow of BurstSize actions (automation.py:306)
\* and the process was restarted before the dispatch loop of line 309: the
\* tasks are Pending with the scheduled_at of line 296, read once per task,
\* and last_execution is the read of line 303 that follows them.
\* Only the first action is of a kind with a handler.
BurstSize == PendingLimit + 1

BurstActions ==
    [i \in 1..BurstSize |->
        [type   |-> IF i = 1 THEN "generate_response" ELSE "webhook_call",
         config |-> "cfgA"]]

BurstStart == MaxClock - 1

\* a scheduled report created RetryBackoffMinutes before the burst with
\* interval_minutes = RetryBackoffMinutes (routes/automation.py:274-310)
BurstReport ==
    [is_active |-> TRUE, schedule_type |-> "interval",
     schedule_config |-> [interval_minutes |-> RetryBackoffMinutes],
     last_generated |-> None,
     next_generation |-> BurstStart - 1, generation_count |-> 0]

InitBurst ==
    /\ clock \in {BurstStart, BurstStart + 1}
    /\ \E r \in Reads(BurstSize + 1, BurstStart - 1) :
        \E last \in {r[BurstSize + 1]} :
          /\ last <= clock
          /\ workflows = [w \in {1} |->
            [ status          |-> "active",
              trigger_type    |-> "manual",
              trigger_config  |-> [type |-> "none", interval_minutes |-> None],
              actions         |-> BurstActions,
              max_executions  |-> None,
              execution_count |-> 1,
              last_execution  |-> last,
              next_execution  |-> None ]]
          /\ tasks = [t \in 1..BurstSize |-> NewTask(1, BurstActions[t], r[t])]
    /\ nextTaskId = BurstSize + 1
    /\ picks = [t \in 1..BurstSize |-> 0]
    /\ rules = << >>
    /\ ctx = "idle"
    /\ tickStep = "none"
    /\ dueWfs = << >>
    /\ pendQ = << >>
    /\ execQ = << >>
    /\ cur = NoCur
    /\ ssn = << >>
    /\ ssnDel = {}
    /\ frame = NoFrame
    /\ dbNew = << >>
    /\ lastCall = NoCall
    /\ prevCall = NoCall
    /\ invoked = NoInvoke
    /\ loop = NoLoop
    /\ reports \in { << >>, [r \in {1} |-> BurstReport] }
    /\ running = FALSE
    /\ threads = << >>
    /\ joining = 0
    /\ alerts = << >>
    /\ evals = << >>
    /\ race = NoRace
    /\ reviews = << >>
    /\ nEvents = 0
    /\ curEvent = "none"
    /\ ruleQ = << >>
    /\ fired = << >>
    /\ fireLog = << >>

TickSelectPendingById ==
    /\ ctx = "tick" /\ tickStep = "workflows"
    /\ TickSelectPendingFrom(QueryResultsById(DuePending(clock), PendingLimit))

NextBurst ==
    \/ TickStart
    \/ TickSelectPendingById
    \/ TaskStartSched
    \/ \E ok \in BOOLEAN : TaskFinish(ok)
    \/ TickFinish
    \/ TickRollback

SpecBurst == InitBurst /\ [][NextBurst]_vars

\* the loop keeps ticking (time.sleep returns, scheduler.py:89) and the
\* handlers return or raise
SpecBurstFair == SpecBurst /\ WF_vars(NextBurst)

\* Tasks as old as the retention window.  RetentionStart is the minute of the
\* first tick; the store holds one executed workflow and two of its tasks,
\* each finished, rescheduled or left Running 8 days, 7 days or 6 days
\* before.  Times before minute 0 are negative.
RetentionStart == MaxClock - 2

RetentionTaskIds == {1, 2}

\* a task of kind generate_response in every state _execute_task can leave
\* it in (automation.py:343-375) at time at
RetentionSeedsAt(at) ==
    LET new  == NewTask(1, [type |-> "generate_response", config |-> "cfgA"], at)
        last == [new EXCEPT !.retry_count = DefaultMaxRetries]
    IN  { CompleteTask(StartTask(new, at), at),
          FailTask(StartTask(last, at), at, at),
          FailTask(StartTask(new, at), at, at),
          StartTask(FailTask(StartTask(new, at), at, at), at + RetryBackoffMinutes) }

RetentionSeeds ==
    UNION { RetentionSeedsAt(RetentionStart - days * DayMinutes) : days \in {6, 7, 8} }

InitRetention ==
    /\ clock = RetentionStart
    /\ workflows = [w \in {1} |->
            [ status          |-> "active",
              trigger_type    |-> "manual",
              trigger_config  |-> [type |-> "none", interval_minutes |-> None],
              actions         |-> << [type |-> "generate_response", config |-> "cfgA"] >>,
              max_executions  |-> None,
              execution_count |-> 2,
              last_execution  |-> RetentionStart - 6 * DayMinutes,
              next_execution  |-> None ]]
    /\ tasks \in [RetentionTaskIds -> RetentionSeeds]
    /\ nextTaskId = Cardinality(RetentionTaskIds) + 1
    /\ picks = [t \in RetentionTaskIds |-> 0]
    /\ reports \in { << >>, [r \in {1} |-> BurstReport] }
    /\ rules = << >>
    /\ ctx = "idle"
    /\ tickStep = "none"
    /\ dueWfs = << >>
    /\ pendQ = << >>
    /\ execQ = << >>
    /\ cur = NoCur
    /\ ssn = << >>
    /\ ssnDel = {}
    /\ frame = NoFrame
    /\ dbNew = << >>
    /\ lastCall = NoCall
    /\ prevCall = NoCall
    /\ invoked = NoInvoke
    /\ loop = NoLoop
    /\ running = FALSE
    /\ threads = << >>
    /\ joining = 0
    /\ alerts = << >>
    /\ evals = << >>
    /\ race = NoRace
    /\ reviews = << >>
    /\ nEvents = 0
    /\ curEvent = "none"
    /\ ruleQ = << >>
    /\ fired = << >>
    /\ fireLog = << >>

\* the steps of the scheduler loop
TickSteps5 ==
    \/ TickStart
    \/ TickSelectPending
    \/ TaskStartSched
    \/ \E ok \in BOOLEAN : TaskFinish(ok)
    \/ TickFinish
    \/ TickRollback

\* the ticks of the scheduler, and the executions of the workflow that
\* requests ask for: a task created after a tick has deleted the row with the
\* largest id gets that id again
NextRetention ==
    \/ AdvanceClock(1, MaxClock)
    \/ \E w \in WorkflowIds : Execute(w)
    \/ TaskStartDb
    \/ TaskLoadDb
    \/ TickStart
    \/ TickSelectPending
    \/ TaskStartSched
    \/ \E ok \in BOOLEAN : TaskFinish(ok)
    \/ TickFinish
    \/ TickRollback

SpecRetention == InitRetention /\ [][NextRetention]_vars

\* the loop keeps ticking (time.sleep returns, scheduler.py:89), the
\* handlers return or raise, and a request thread inside execute_workflow
\* goes on to its next task
SpecRetentionFair ==
    SpecRetention /\ WF_vars(TickSteps5) /\ WF_vars(TaskStartDb \/ TaskLoadDb)

\* Alert rules and the ticks that check them.
NextAlerts ==
    \/ \E d \in AlertClockSteps : AdvanceClock(d, MaxAlertClock)
    \/ \E inp \in AlertInputs : CreateAlert(inp)
    \/ \E a \in AlertIds, v \in BOOLEAN, inp \in AlertInputs : UpdateAlert(a, v, inp)
    \/ \E a \in AlertIds : DeleteAlert(a)
    \/ TickStart
    \/ TickSelectPending
    \/ TickFinish
    \/ \E m \in Metrics : TickAlerts(m)

SpecAlerts == Init /\ [][NextAlerts]_vars

\* Two alert rules checked in one tick, with metric queries that may raise.
FaultAlertIds == {1, 2}

FaultAlertInputs ==
    { [metric_type |-> "review_volume", threshold_config |-> NoThresholds],
      [metric_type |-> "rating_drop", threshold_config |-> NoThresholds] }

AlertQueries == { Raises } \cup { Returns(m) : m \in Metrics }

NextAlertFaults ==
    \/ \E d \in AlertClockSteps : AdvanceClock(d, MaxAlertClock)
    \/ \E inp \in FaultAlertInputs : CreateAlertIn(FaultAlertIds, inp)
    \/ TickStart
    \/ TickSelectPending
    \/ TickFinish
    \/ \E qs \in [DOMAIN alerts -> AlertQueries] : TickAlertsWith(qs)

SpecAlertFaults == Init /\ [][NextAlertFaults]_vars

\* Rating-drop alert rules over the reviews table.  RatingStart is the
\* minute of the first tick.  The rows of the table are the input of the
\* metric helpers: up to two rows of every age and rating, or the rows
\* seed_sample_data has left a day before.  Times before minute 0 are
\* negative.
RatingStart == MaxClock - AlertGateMinutes

\* the times of the seed_sample_data calls made before the first tick: about
\* a day before it
SeedTimes == { RatingStart - DayMinutes - 1, RatingStart - DayMinutes }

InitRatings ==
    /\ clock = RatingStart
    /\ \/ \E S \in SUBSET ReviewIds :
             reviews \in [S -> { [created_at |-> RatingStart - age, rating |-> r] :
                                   age \in ReviewAges, r \in Ratings }]
       \/ \E at \in SeedTimes :
             reviews \in { SeedRows(r) : r \in Reads(Len(SeedRatings) + 1, at) }
    /\ workflows = << >>
    /\ tasks = << >>
    /\ nextTaskId = 1
    /\ picks = << >>
    /\ reports = << >>
    /\ rules = << >>
    /\ ctx = "idle"
    /\ tickStep = "none"
    /\ dueWfs = << >>
    /\ pendQ = << >>
    /\ execQ = << >>
    /\ cur = NoCur
    /\ ssn = << >>
    /\ ssnDel = {}
    /\ frame = NoFrame
    /\ dbNew = << >>
    /\ lastCall = NoCall
    /\ prevCall = NoCall
    /\ invoked = NoInvoke
    /\ loop = NoLoop
    /\ running = FALSE
    /\ threads = << >>
    /\ joining = 0
    /\ alerts = << >>
    /\ evals = << >>
    /\ race = NoRace
    /\ nEvents = 0
    /\ curEvent = "none"
    /\ ruleQ = << >>
    /\ fired = << >>
    /\ fireLog = << >>

NextRatings ==
    \/ \E d \in AlertClockSteps : AdvanceClock(d, MaxClock)
    \/ \E inp \in RatingAlertInputs : CreateAlert(inp)
    \/ SeedSampleData
    \/ TickStart
    \/ TickSelectPending
    \/ TickFinish
    \/ TickReviews

SpecRatings == InitRatings /\ [][NextRatings]_vars

\* A manually triggered one-shot workflow executed by a request thread while
\* the scheduler loop runs its ticks: the query for due workflows, the
\* pending-task step and the commit.
NextConc ==
    \/ \E al \in RetryActionLists :
            CreateWorkflow("manual", [type |-> "none", interval_minutes |-> None],
                           al, 1)
    \/ \E w \in WorkflowIds : Execute(w)
    \/ TaskStartDb
    \/ TaskLoadDb
    \/ \E ok \in BOOLEAN : TaskFinish(ok)
    \/ RaceQuery
    \/ LoopSelectPending
    \/ LoopTaskStart
    \/ \E ok \in BOOLEAN : LoopTaskFinish(ok)
    \/ LoopCommit

SpecConc == Init /\ [][NextConc]_vars

\* ------------------------------------- AutomationScheduler: start, stop, loop
\* The positions of a thread in _run_scheduler (scheduler.py:56-93):
\*   "check"     the test of while self.running (line 60)
\*   "open"      app_context() and self.Session() (lines 62-63)
\*   "workflows", "pending", "reports", "alerts", "cleanup"
\*               the five steps (lines 66, 69, 72, 75, 78)
\*   "commit"    session.commit() (line 80)
\*   "rollback"  the handler of lines 82-84
\*   "close"     session.close() (line 86) and the end of the with block
\*   "sleep"     time.sleep at line 89
\*   "sleepErr"  the handler of lines 91-93 with its time.sleep
\*   "exited"    the while loop was left and the thread has ended
TickSteps == <<"workflows", "pending", "reports", "alerts", "cleanup">>

InTry == Range(TickSteps) \cup {"commit"}

InTick == InTry \cup {"open", "rollback", "close"}

Sleeping == {"sleep", "sleepErr"}

NewThread == [pc |-> "check", lastTick |-> "none"]

\* the position after the statement at pc has returned
AfterStep(pc) ==
    CASE pc = "open"      -> "workflows"
      [] pc = "workflows" -> "pending"
      [] pc = "pending"   -> "reports"
      [] pc = "reports"   -> "alerts"
      [] pc = "alerts"    -> "cleanup"
      [] pc = "cleanup"   -> "commit"
      [] pc = "commit"    -> "close"
      [] pc = "rollback"  -> "close"
      [] pc = "close"     -> "sleep"

\* OnException with no handler in _run_scheduler: the exception ends the thread
OnExceptionExit(pc) == "exited"

\* the position after the statement at pc has raised an Exception: inside the
\* inner try the handler of line 82, elsewhere (an exception raised by
\* rollback() passes through the finally clause first) the handler of line 91
OnException(pc) == IF pc \in InTry THEN "rollback" ELSE "sleepErr"

\* the position of thread th, "unborn" before start() has created it
PcOf(th) == IF th \in DOMAIN threads THEN threads[th].pc ELSE "unborn"

\* start (scheduler.py:38-47); init_scheduler (scheduler.py:335-339), called
\* while no stop() call is waiting in join
StartScheduler ==
    /\ joining = 0
    /\ IF running
          THEN UNCHANGED <<running, threads, alertVars, race>>
          ELSE /\ Len(threads) < MaxThreads
               /\ running' = TRUE
               /\ threads' = Append(threads, NewThread)
    /\ UNCHANGED <<clock, storeVars, ctlVars, obsVars, ruleVars, picks, loop,
                   reports, joining, alertVars, race>>

\* stop (scheduler.py:49-52); stop_scheduler (scheduler.py:341-343):
\* the flag is cleared and the caller waits in join for self.scheduler_thread,
\* the thread created last, if there is one
StopScheduler ==
    /\ joining = 0
    /\ running' = FALSE
    /\ joining' = Len(threads)
    /\ UNCHANGED <<clock, storeVars, ctlVars, obsVars, ruleVars, picks, loop,
                   reports, threads, alertVars, race>>

\* scheduler_thread.join(timeout=5) returns (scheduler.py:53): the thread has
\* ended, or 5 seconds have passed while the thread was inside a statement
\* of the loop body or inside time.sleep(self.check_interval), which lasts
\* 60 seconds (scheduler.py:24)
JoinReturns ==
    /\ joining # 0
    /\ threads[joining].pc \in {"exited"} \cup InTick \cup Sleeping
    /\ joining' = 0
    /\ UNCHANGED <<clock, storeVars, ctlVars, obsVars, ruleVars, picks, loop,
                   reports, running, threads, alertVars, race>>

\* ThreadCheck that goes on whatever the flag is (while True)
ThreadCheckIgnoresFlag(th) ==
    /\ th \in DOMAIN threads
    /\ threads[th].pc = "check"
    /\ threads' = [threads EXCEPT ![th].pc = "open"]
    /\ UNCHANGED <<clock, storeVars, ctlVars, obsVars, ruleVars, picks, loop,
                   reports, running, joining, alertVars, race>>

\* the test of the while loop (scheduler.py:60)
ThreadCheck(th) ==
    /\ th \in DOMAIN threads
    /\ threads[th].pc = "check"
    /\ threads' = [threads EXCEPT ![th].pc = IF running THEN "open" ELSE "exited"]
    /\ UNCHANGED <<clock, storeVars, ctlVars, obsVars, ruleVars, picks, loop,
                   reports, running, joining, alertVars, race>>

\* one statement of the loop body (scheduler.py:62-86) returns (ok) or raises
ThreadStep(th, ok) ==
    /\ th \in DOMAIN threads
    /\ threads[th].pc \in InTick
    /\ threads' = [threads EXCEPT ![th] =
            [pc       |-> IF ok THEN AfterStep(threads[th].pc)
                                ELSE OnException(threads[th].pc),
             lastTick |-> IF ~ok THEN "raised"
                          ELSE IF threads[th].pc = "commit" THEN "committed"
                          ELSE threads[th].lastTick]]
    /\ UNCHANGED <<clock, storeVars, ctlVars, obsVars, ruleVars, picks, loop,
                   reports, running, joining, alertVars, race>>

\* time.sleep(self.check_interval) returns (scheduler.py:89, 93)
ThreadWake(th) ==
    /\ th \in DOMAIN threads
    /\ threads[th].pc \in Sleeping
    /\ threads' = [threads EXCEPT ![th].pc = "check"]
    /\ UNCHANGED <<clock, storeVars, ctlVars, obsVars, ruleVars, picks, loop,
                   reports, running, joining, alertVars, race>>

ThreadRun(th) ==
    \/ ThreadCheck(th)
    \/ \E ok \in BOOLEAN : ThreadStep(th, ok)
    \/ ThreadWake(th)

\* The scheduler object: start and stop calls and the threads they leave.
NextLoop ==
    \/ StartScheduler
    \/ StopScheduler
    \/ JoinReturns
    \/ \E th \in ThreadIds : ThreadCheck(th)
    \/ \E th \in ThreadIds, ok \in BOOLEAN : ThreadStep(th, ok)
    \/ \E th \in ThreadIds : ThreadWake(th)

\* every thread that can take a step takes one in the end: the statements of
\* the loop body return or raise, and time.sleep returns after check_interval
SpecLoop ==
    /\ Init /\ [][NextLoop]_vars
    /\ \A th \in ThreadIds : WF_vars(ThreadRun(th))

\* ------------------------------------------------------ AutomationRuleEngine
\* create_automation_rule (routes/automation.py:180-207)
CreateRule(ev, cooldown, prio) ==
    /\ ctx = "idle"
    /\ NextId(rules) \in RuleIds
    /\ LET id == NextId(rules)
           row == [ is_active        |-> TRUE,
                    trigger_event    |-> ev,
                    cooldown_minutes |-> cooldown,
                    last_triggered   |-> None,
                    trigger_count    |-> 0,
                    priority         |-> prio ]
       IN  rules' = Merge(rules, [x \in {id} |-> row])
    /\ ruleQ' = << >> /\ fired' = << >> /\ fireLog' = << >>
    /\ UNCHANGED <<clock, storeVars, ctlVars, obsVars, nEvents, curEvent, picks, loop,
                   reports, schedVars, alertVars, race>>

\* update_automation_rule (routes/automation.py:209-239); key names the one
\* key of the request body, val its value
UpdateRule(r, key, val) ==
    /\ ctx = "idle"
    /\ r \in DOMAIN rules
    /\ rules' = [rules EXCEPT ![r] =
                   CASE key = "is_active"        -> [@ EXCEPT !.is_active = val]
                     [] key = "trigger_event"    -> [@ EXCEPT !.trigger_event = val]
                     [] key = "cooldown_minutes" -> [@ EXCEPT !.cooldown_minutes = val]
                     [] key = "priority"         -> [@ EXCEPT !.priority = val]]
    /\ ruleQ' = << >> /\ fired' = << >> /\ fireLog' = << >>
    /\ UNCHANGED <<clock, storeVars, ctlVars, obsVars, nEvents, curEvent, picks, loop,
                   reports, schedVars, alertVars, race>>

\* delete_automation_rule (routes/automation.py:241-257)
DeleteRule(r) ==
    /\ ctx = "idle"
    /\ r \in DOMAIN rules
    /\ rules' = Restrict(rules, (DOMAIN rules) \ {r})
    /\ ruleQ' = << >> /\ fired' = << >> /\ fireLog' = << >>
    /\ UNCHANGED <<clock, storeVars, ctlVars, obsVars, nEvents, curEvent, picks, loop,
                   reports, schedVars, alertVars, race>>

\* the filter of trigger_event's query (automation.py:402-405)
MatchingRules(ev) ==
    { r \in DOMAIN rules : rules[r].is_active /\ rules[r].trigger_event = ev }

\* RuleQueryResults without the ORDER BY
RuleQueryUnordered(ev) ==
    QueryResults(MatchingRules(ev), Cardinality(DOMAIN rules))

\* the results of that query: ORDER BY priority, the order among rules of
\* equal priority is not determined by the query
RuleQueryResults(ev) ==
    { q \in QueryResults(MatchingRules(ev), Cardinality(DOMAIN rules)) :
        \A i, j \in DOMAIN q :
            i < j => rules[q[i]].priority <= rules[q[j]].priority }

\* ShouldTrigger with the cooldown left out of cooldown_end
ShouldTriggerNoCooldown(rule, now) ==
    ~(/\ rule.cooldown_minutes > 0
      /\ rule.last_triggered # None
      /\ now < rule.last_triggered)

\* _should_trigger (automation.py:416-432); now = its utcnow()
ShouldTrigger(rule, now) ==
    ~(/\ rule.cooldown_minutes > 0
      /\ rule.last_triggered # None
      /\ now < rule.last_triggered + rule.cooldown_minutes)

\* _execute_rule (automation.py:434-445); now = its utcnow()
ExecuteRule(rule, now) ==
    [rule EXCEPT !.last_triggered = now, !.trigger_count = @ + 1]

\* trigger_event: the query (automation.py:400-407)
TriggerEvent(ev) ==
    /\ ctx = "idle"
    /\ nEvents < MaxEvents
    /\ nEvents' = nEvents + 1
    /\ curEvent' = ev
    /\ ctx' = "event"
    /\ \E q \in RuleQueryResults(ev) : ruleQ' = q
    /\ fired' = << >>
    /\ fireLog' = << >>
    /\ UNCHANGED <<clock, storeVars, rules, tickStep, dueWfs, pendQ, execQ, cur,
                   ssn, ssnDel, frame, dbNew, obsVars, picks, loop, reports,
                   schedVars, alertVars, race>>

\* trigger_event: one iteration of the loop (automation.py:409-412)
TriggerStep ==
    /\ ctx = "event" /\ ruleQ # << >>
    /\ LET r == Head(ruleQ)
       IN  \E rd \in Reads(2, clock) :
             /\ rd[2] <= MaxRuleClock
             /\ IF ShouldTrigger(rules[r], rd[1])
                THEN /\ rules' = [rules EXCEPT ![r] = ExecuteRule(@, rd[2])]
                     /\ fired' = Append(fired, r)
                     /\ fireLog' = Append(fireLog,
                            [rule |-> r, at |-> rd[2], prev |-> rules[r].last_triggered])
                     /\ clock' = rd[2]
                ELSE /\ rd[2] = rd[1]
                     /\ clock' = rd[1]
                     /\ UNCHANGED <<rules, fired, fireLog, reports, schedVars, alertVars, race>>
    /\ ruleQ' = Tail(ruleQ)
    /\ UNCHANGED <<nEvents, curEvent, storeVars, ctx, tickStep, dueWfs, pendQ, execQ, cur, ssn,
                   ssnDel, frame, dbNew, obsVars, picks, loop, reports,
                   schedVars, alertVars, race>>

\* trigger_event returns triggered_rules (automation.py:414)
TriggerReturn ==
    /\ ctx = "event" /\ ruleQ = << >>
    /\ ctx' = "idle"
    /\ UNCHANGED <<clock, storeVars, ruleVars, tickStep, dueWfs, pendQ, execQ,
                   cur, ssn, ssnDel, frame, dbNew, obsVars, picks, loop,
                   reports, schedVars, alertVars, race>>

\* Event rules: their creation, their edits, and events raised over time.
NextRules ==
    \/ \E d \in RuleClockSteps : AdvanceClock(d, MaxRuleClock)
    \/ \E ev \in EventNames, cd \in CooldownChoices, pr \in PriorityChoices :
            CreateRule(ev, cd, pr)
    \/ \E r \in DOMAIN rules, v \in BOOLEAN : UpdateRule(r, "is_active", v)
    \/ \E ev \in EventNames : TriggerEvent(ev)
    \/ TriggerStep
    \/ TriggerReturn

SpecRules == Init /\ [][NextRules]_vars

\* Event rules of one priority with every edit a request can make to the
\* fields the engine reads, and their deletion.
NextRuleEdits ==
    \/ \E d \in RuleClockSteps : AdvanceClock(d, MaxRuleClock)
    \/ \E ev \in EventNames, cd \in CooldownChoices : CreateRule(ev, cd, 1)
    \/ \E r \in DOMAIN rules, v \in BOOLEAN : UpdateRule(r, "is_active", v)
    \/ \E r \in DOMAIN rules, ev \in EventNames : UpdateRule(r, "trigger_event", ev)
    \/ \E r \in DOMAIN rules : DeleteRule(r)
    \/ \E ev \in EventNames : TriggerEvent(ev)
    \/ TriggerStep
    \/ TriggerReturn

SpecRuleEdits == Init /\ [][NextRuleEdits]_vars

TypeOK ==
    /\ clock \in 0..MaxClock
    /\ ctx \in {"idle", "request", "tick", "event"}
    /\ \A t \in DOMAIN tasks : tasks[t].status \in TaskStatus
    /\ \A w \in DOMAIN workflows : workflows[w].status \in WorkflowStatus
    /\ \A r \in DOMAIN reports : reports[r].is_active \in BOOLEAN
    /\ running \in BOOLEAN
    /\ DOMAIN threads \subseteq ThreadIds
    /\ \A th \in DOMAIN threads :
          threads[th].pc \in InTick \cup Sleeping \cup {"check", "exited"}
    /\ joining \in {0} \cup DOMAIN threads


\* ===================================================================== claims
Exhausted(row) == row.status = "failed" /\ row.retry_count >= row.max_retries

Terminal(row) == row.status \in {"completed", "cancelled"} \/ Exhausted(row)

CallMade(c) == c.ret # "none"

\* C1: every task has retry_count <= max_retries; a running task whose
\* retry_count equals max_retries and whose handler fails becomes Failed, and
\* a Failed task with no retry left is never Pending again.
C1_RetryBound ==
    \A t \in LiveTasks : TaskObj(t).retry_count <= TaskObj(t).max_retries

C1_Step ==
    \A t \in LiveTasks \cap LiveTasks' :
        /\ ( /\ TaskObj(t).status = "running"
             /\ TaskObj(t).retry_count = TaskObj(t).max_retries
             /\ TaskObj(t)'.status \notin {"running", "completed"} )
           => TaskObj(t)'.status = "failed"
        /\ Exhausted(TaskObj(t)) => TaskObj(t)'.status = "failed"

C1_RetryNeverExceedsMax == []C1_RetryBound /\ [][C1_Step]_vars

\* C2: a workflow whose max_executions is set (0 included) never has
\* execution_count above it, and an execute_workflow call made when
\* execution_count >= max_executions returns false.
C2_CapNeverExceeded ==
    /\ \A w \in DOMAIN workflows :
          workflows[w].max_executions # None
            => workflows[w].execution_count <= workflows[w].max_executions
    /\ ( /\ CallMade(lastCall)
         /\ lastCall.before # NoRow
         /\ lastCall.before.max_executions # None
         /\ lastCall.before.execution_count >= lastCall.before.max_executions )
       => lastCall.ret = "false"

\* C3: the status of a task changes only Pending->Running, Running->Completed,
\* Running->Failed or Running->Pending; a task that is Completed, Cancelled
\* or Failed with no retry left keeps its status and does not enter
\* _execute_task.
TaskTransitions ==
    { <<"pending", "running">>, <<"running", "completed">>,
      <<"running", "failed">>, <<"running", "pending">> }

C3_Step ==
    \A t \in LiveTasks \cap LiveTasks' :
        /\ TaskObj(t)'.status # TaskObj(t).status
             => <<TaskObj(t).status, TaskObj(t)'.status>> \in TaskTransitions
        /\ Terminal(TaskObj(t))
             => /\ TaskObj(t)'.status = TaskObj(t).status
                /\ cur'.tid # t
                /\ t \notin Range(pendQ') \cup Range(execQ')

C3_TaskStateMachine == [][C3_Step]_vars

\* the same two properties for every step but the rollback of a tick
\* (scheduler.py:82-84), which puts the stored rows back in the place of
\* the outcomes the tick has written (not a claim of its own)
TickRolledBack ==
    /\ ctx = "tick" /\ ctx' = "idle"
    /\ DueReports(clock) # {}

CommittedStepsKeepTaskLife ==
    []C1_RetryBound /\ [][ TickRolledBack \/ (C1_Step /\ C3_Step) ]_vars

\* C4: a task whose handler always fails ends Failed with retry_count = 3 and
\* completed_at set, and a retried failure leaves completed_at null: every
\* Pending task has completed_at = null.
C4_PendingHasNoCompletedAt ==
    \A t \in LiveTasks :
        /\ TaskObj(t).status = "pending" => TaskObj(t).completed_at = None
        /\ TaskObj(t).status = "failed"
             => /\ TaskObj(t).retry_count = DefaultMaxRetries
                /\ TaskObj(t).completed_at # None

\* C5: a retried failure leaves the task Pending with retry_count one higher,
\* scheduled_at = failure time + 5 minutes and started_at null.
C5_Step ==
    \A t \in LiveTasks \cap LiveTasks' :
        ( TaskObj(t).status = "running" /\ TaskObj(t)'.status = "pending" )
          => /\ TaskObj(t)'.retry_count = TaskObj(t).retry_count + 1
             /\ TaskObj(t)'.scheduled_at
                  = TaskObj(t)'.completed_at + RetryBackoffMinutes
             /\ TaskObj(t)'.started_at = None

C5_RetryReschedules == [][C5_Step]_vars


\* C6: a rule with cooldown_minutes > 0 that has fired before does not fire
\* (no last_triggered update, no trigger_count increment, no entry in the
\* returned list) before last_triggered + cooldown_minutes.
Fires(r) ==
    \/ rules'[r].last_triggered # rules[r].last_triggered
    \/ rules'[r].trigger_count # rules[r].trigger_count
    \/ (Len(fired') > Len(fired) /\ fired'[Len(fired')] = r)

C6_Step ==
    \A r \in DOMAIN rules \cap DOMAIN rules' :
        ( /\ rules[r].cooldown_minutes > 0
          /\ rules[r].last_triggered # None
          /\ Fires(r) )
        => /\ rules'[r].last_triggered
                >= rules[r].last_triggered + rules[r].cooldown_minutes
           /\ clock' >= rules[r].last_triggered + rules[r].cooldown_minutes

C6_CooldownRespected == [][C6_Step]_vars

\* a trigger_event call has visited every rule; a matching active rule with
\* cooldown_minutes = 30 that fired 10 to 29 minutes ago was not fired
C6_Witness ==
    \E r \in DOMAIN rules :
        /\ ctx = "event" /\ ruleQ = << >>
        /\ rules[r].is_active /\ rules[r].trigger_event = curEvent
        /\ rules[r].cooldown_minutes = 30
        /\ rules[r].last_triggered # None
        /\ clock - rules[r].last_triggered \in 10..29
        /\ r \notin Range(fired)

\* C7: within one trigger_event call the rules fire in ascending priority:
\* the returned list is ordered by priority, the last_triggered updates were
\* made in that order, and no rule still to be visited has a lower priority
\* number than a rule already fired.
C7_PriorityOrder ==
    /\ Len(fireLog) = Len(fired)
    /\ \A i, j \in DOMAIN fired :
          i < j => /\ rules[fired[i]].priority <= rules[fired[j]].priority
                   /\ fireLog[i].rule = fired[i]
                   /\ fireLog[i].at <= fireLog[j].at
                   /\ rules[fired[i]].last_triggered
                        <= rules[fired[j]].last_triggered
    /\ \A i \in DOMAIN fired, q \in Range(ruleQ) :
          rules[fired[i]].priority <= rules[q].priority

\* both rules fired in one call, the rule created second (priority 1) before
\* the rule created first (priority 2)
C7_Witness ==
    /\ ctx = "event" /\ ruleQ = << >>
    /\ fired = <<2, 1>>
    /\ rules[2].priority = 1 /\ rules[1].priority = 2

\* C8: two execute_workflow calls in immediate succession on an Active
\* workflow with max_executions = 1 that has not run yet: the first returns
\* true and creates one task per action, the second returns false, creates
\* no task and changes no field of the workflow.
C8_SecondExecuteIsNoOp ==
    ( /\ CallMade(prevCall) /\ CallMade(lastCall)
      /\ prevCall.wf = lastCall.wf
      /\ prevCall.before # NoRow
      /\ prevCall.before.status = "active"
      /\ prevCall.before.max_executions = 1
      /\ prevCall.before.execution_count = 0 )
    => /\ prevCall.ret = "true"
       /\ Cardinality(prevCall.created) = Len(prevCall.before.actions)
       /\ lastCall.ret = "false"
       /\ lastCall.created = {}
       /\ lastCall.before = prevCall.after
       /\ lastCall.after = lastCall.before
       /\ workflows[lastCall.wf] = lastCall.before
       /\ nextTaskId = lastCall.tasksBefore
       /\ { t \in DOMAIN tasks : tasks[t].workflow_id = lastCall.wf }
            = prevCall.created

\* the second of two such calls has returned, the workflow has two actions
C8_Witness ==
    /\ CallMade(prevCall) /\ CallMade(lastCall)
    /\ prevCall.wf = lastCall.wf
    /\ prevCall.before # NoRow
    /\ prevCall.before.status = "active"
    /\ prevCall.before.max_executions = 1
    /\ prevCall.before.execution_count = 0
    /\ Len(prevCall.before.actions) = 2
    /\ lastCall.ret = "false"

\* C9: after a successful execute_workflow of a schedule workflow whose
\* trigger_config has interval_minutes = 60, next_execution equals
\* last_execution + 60 minutes.
C9_NextIsLastPlusInterval ==
    ( /\ CallMade(lastCall)
      /\ lastCall.ret = "true"
      /\ lastCall.before.trigger_type = "schedule"
      /\ lastCall.before.trigger_config.interval_minutes = 60 )
    => lastCall.after.next_execution = lastCall.after.last_execution + 60

\* C10: execute_workflow on an unknown id, on a workflow that is not Active
\* or on a workflow whose execution cap is reached returns false and leaves
\* the workflow and the tasks as they were.
C10_IneligibleIsNoOp ==
    ( /\ CallMade(lastCall)
      /\ \/ lastCall.before = NoRow
         \/ lastCall.before.status # "active"
         \/ /\ lastCall.before.max_executions # None
            /\ lastCall.before.execution_count >= lastCall.before.max_executions )
    => /\ lastCall.ret = "false"
       /\ lastCall.created = {}
       /\ lastCall.after = lastCall.before
       /\ nextTaskId = lastCall.tasksBefore


\* C11: a successful execute_workflow on a workflow with n actions adds
\* exactly n tasks of that workflow (Pending, scheduled_at read from the clock
\* during the call, kind and config of the action), adds 1 to
\* execution_count, sets last_execution from the clock during the call, and
\* dispatches the new tasks one after the other in the order of the actions.
C11_Step ==
    \A w \in DOMAIN workflows :
        workflows'[w].execution_count # workflows[w].execution_count
        => LET wf == workflows[w]
               n == Len(wf.actions)
               new == { t \in DOMAIN tasks' \ DOMAIN tasks :
                            tasks'[t].workflow_id = w }
           IN  /\ workflows'[w].execution_count = wf.execution_count + 1
               /\ workflows'[w].last_execution \in clock..clock'
               /\ new = nextTaskId..(nextTaskId + n - 1)
               /\ \A i \in 1..n :
                    LET row == tasks'[nextTaskId + i - 1]
                    IN  /\ row.status = "pending"
                        /\ row.action_type = wf.actions[i].type
                        /\ row.action_config =
                             (IF wf.actions[i].config = "absent"
                              THEN "empty" ELSE wf.actions[i].config)
                        /\ row.scheduled_at \in clock..clock'
                        /\ row.started_at = None
                        /\ row.retry_count = 0

C11_DispatchInOrder ==
    /\ frame.active =>
         \A i, j \in frame.created :
            (i < j /\ tasks[j].started_at # None)
               => /\ tasks[i].started_at # None
                  /\ tasks[i].status # "running"
    /\ ( CallMade(lastCall) /\ lastCall.ret = "true" )
         => /\ Cardinality(lastCall.created) = Len(lastCall.before.actions)
            /\ lastCall.after.execution_count
                 = lastCall.before.execution_count + 1
            /\ \A t \in lastCall.created :
                 t \in DOMAIN tasks => tasks[t].started_at # None

C11_ExecuteCreatesAndDispatches == []C11_DispatchInOrder /\ [][C11_Step]_vars

\* execute_workflow is dispatching the second of its two new tasks, the first
\* one has completed
C11_Witness ==
    /\ frame.active
    /\ Cardinality(frame.created) = 2
    /\ \E i, j \in frame.created :
         /\ i < j /\ cur.tid = j
         /\ tasks[j].status = "running"
         /\ tasks[i].status = "completed"
    /\ workflows[frame.wf].execution_count = frame.before.execution_count + 1


\* C12: the tasks of an execute_workflow call and its update of
\* execution_count are committed together or not at all: the store holds, for
\* every workflow, one task per action for each execution counted (no workflow
\* here has its actions edited, and no task is old enough to be cleaned up).
C12_ExecuteIsAtomic ==
    \A w \in DOMAIN workflows :
        Cardinality({ t \in DOMAIN tasks : tasks[t].workflow_id = w })
            = workflows[w].execution_count * Len(workflows[w].actions)


\* C13: whenever _execute_task is about to call the handler of a task (on the
\* path of execute_workflow and on the path of _process_pending_tasks), the
\* committed row of the task has status Running and started_at set.
C13_RunningIsPersistedBeforeHandler ==
    ( /\ cur.tid # 0
      /\ TaskObj(cur.tid).action_type \in HandledActionTypes )
    => /\ cur.tid \in DOMAIN tasks
       /\ tasks[cur.tid].status = "running"
       /\ tasks[cur.tid].started_at # None
       /\ tasks[cur.tid].started_at = TaskObj(cur.tid).started_at


\* C14: with the scheduler loop running beside a request thread (or beside
\* another loop), no task is picked twice: between two moments at which a task
\* is made Pending it enters _execute_task, and so has its handler called, at
\* most once.
C14_NoDoublePick ==
    \A t \in DOMAIN picks \cap DOMAIN tasks :
        tasks[t].action_type \in HandledActionTypes => picks[t] <= 1


\* C15: a handler failure does not leave _execute_task: the call returns, the
\* task is Completed or carries the error (Failed, or Pending for a retry),
\* and the caller goes on with the tasks that remain in its loop.
C15_Step ==
    ( cur.tid # 0 /\ cur' = NoCur )
    => /\ \A t \in {cur.tid} :
            \/ TaskObj(t)'.status = "completed"
            \/ /\ TaskObj(t)'.status \in {"failed", "pending"}
               /\ TaskObj(t)'.error_message = "error"
               /\ TaskObj(t)'.completed_at # None
       /\ IF cur.via = "db"
          THEN /\ execQ' = Tail(execQ)
               /\ IF Tail(execQ) # << >>
                  THEN frame' = frame /\ ctx' = ctx
                  ELSE /\ lastCall'.ret = "true"
                       /\ lastCall'.created = frame.created
               /\ pendQ' = pendQ
          ELSE /\ pendQ' = Tail(pendQ)
               /\ ctx' = "tick" /\ tickStep' = "pending"

C15_FailureStaysInsideExecuteTask == [][C15_Step]_vars

\* an execute_workflow call has returned True although the handler of its
\* first task failed; its second task was executed after that and completed
C15_Witness ==
    /\ CallMade(lastCall) /\ lastCall.ret = "true"
    /\ \E i, j \in lastCall.created :
         /\ i < j
         /\ tasks[i].error_message = "error"
         /\ tasks[i].status = "pending"
         /\ tasks[j].status = "completed"
         /\ tasks[j].started_at >= tasks[i].completed_at


\* C16: in _check_scheduled_workflows an execute_workflow call that raises
\* does not keep the other due workflows from being executed: the workflows
\* of the query result are visited one by one to the last, and every one of
\* them that is eligible and has actions of known kinds is executed, with one
\* task per action and its execution counted once.
GoodRow(row) ==
    /\ row # NoRow
    /\ row.status = "active"
    /\ ShouldExecute(row)
    /\ BadIndex(row.actions) = 0

C16_Step ==
    /\ ( tickStep = "workflows" /\ dueWfs' # dueWfs )
       => /\ dueWfs # << >>
          /\ dueWfs' = Tail(dueWfs)
          /\ lastCall' # lastCall
          /\ lastCall'.wf = Head(dueWfs)
          /\ GoodRow(lastCall'.before)
               => /\ lastCall'.ret = "true"
                  /\ Cardinality(lastCall'.created)
                       = Len(lastCall'.before.actions)
                  /\ \A t \in lastCall'.created :
                        /\ tasks'[t].workflow_id = lastCall'.wf
                        /\ tasks'[t].started_at # None
                  /\ lastCall'.after.execution_count
                       = lastCall'.before.execution_count + 1
                  /\ lastCall'.after.next_execution > clock
                  /\ workflows'[lastCall'.wf] = lastCall'.after
    /\ ( tickStep = "workflows" /\ tickStep' # "workflows" ) => dueWfs = << >>

C16_OneBadWorkflowDoesNotBlock == [][C16_Step]_vars

\* in one tick, execute_workflow raised for one due workflow and the next due
\* workflow was then executed
C16_Witness ==
    /\ ctx = "tick" /\ tickStep = "workflows" /\ dueWfs = << >>
    /\ CallMade(prevCall) /\ prevCall.ret = "raise"
    /\ CallMade(lastCall) /\ lastCall.ret = "true"
    /\ prevCall.wf # lastCall.wf
    /\ workflows[lastCall.wf].execution_count = 1
    /\ \E t \in lastCall.created : tasks[t].status = "completed"


\* C17: the steps of a tick commit independently: whatever way a tick ends,
\* the changes _process_pending_tasks made to the tasks it loaded are in the
\* store afterwards, also when a later step of the tick failed.
C17_Step ==
    ( ctx = "tick" /\ ctx' = "idle" )
        => \A t \in DOMAIN ssn : t \in DOMAIN tasks' /\ tasks'[t] = ssn[t]

C17_StepsCommitIndependently == [][C17_Step]_vars


\* C18: the scheduler loop is stopped only by stop(): a thread leaves
\* _run_scheduler only at the test of the while loop with the running flag
\* False, never from inside the loop body, and no step of a thread clears the
\* flag; a thread inside a tick reaches one of the two time.sleep calls,
\* whether or not a statement of the tick raised, and a sleeping thread
\* begins another tick unless the flag has been cleared.
C18_Step ==
    /\ \A th \in DOMAIN threads :
          ( threads[th].pc # "exited" /\ threads'[th].pc = "exited" )
              => ( threads[th].pc = "check" /\ ~running )
    /\ ( running /\ ~running' ) => threads' = threads

C18_LoopOutlivesExceptions ==
    /\ [][C18_Step]_vars
    /\ \A th \in ThreadIds :
          [] ( PcOf(th) \in InTick => <> ( PcOf(th) \in Sleeping ) )
    /\ \A th \in ThreadIds :
          [] ( PcOf(th) \in Sleeping => <> ( PcOf(th) = "open" \/ ~running ) )

\* a thread has begun a tick after a tick in which a statement raised
C18_Witness ==
    \E th \in DOMAIN threads :
        /\ running
        /\ threads[th].pc = "workflows"
        /\ threads[th].lastTick = "raised"

\* C19: once stop() has cleared the running flag, a thread starts no further
\* step of the tick it is in and no new tick.
C19_Step ==
    \A th \in DOMAIN threads :
        ( ~running /\ threads'[th].pc # threads[th].pc )
            => threads'[th].pc \notin ( Range(TickSteps) \cup {"open"} )

C19_StopHoldsBetweenSteps == [][C19_Step]_vars

\* C20: at most one thread is inside a tick of _run_scheduler at any time.
C20_AtMostOneThreadTicks ==
    Cardinality({ th \in DOMAIN threads : threads[th].pc \in InTick }) <= 1


\* C21: the query of _process_pending_tasks returns at most 10 tasks, each
\* Pending with scheduled_at <= now, and the ones with the earliest
\* scheduled_at: no due Pending task it leaves out has an earlier
\* scheduled_at than one it returns.
C21_Step ==
    ( tickStep = "workflows" /\ tickStep' = "pending" )
        => /\ Len(pendQ') <= PendingLimit
           /\ \A t \in Range(pendQ') :
                 /\ tasks[t].status = "pending"
                 /\ tasks[t].scheduled_at <= clock
                 /\ \A u \in DuePending(clock) \ Range(pendQ') :
                       tasks[u].scheduled_at >= tasks[t].scheduled_at

C21_PendingSelectedOldestFirst == [][C21_Step]_vars


\* C22: every Pending task whose scheduled_at has passed is dispatched in
\* the end: no task stays Pending and due forever without _execute_task being
\* entered for it, which makes it Running.
DuePendingObj(t) ==
    /\ t \in LiveTasks
    /\ TaskObj(t).status = "pending"
    /\ TaskObj(t).scheduled_at <= clock

C22_DueTasksAreDrained ==
    \A t \in 1..BurstSize : []<> ( ~DuePendingObj(t) )

\* the same, for a store without scheduled reports (not a claim of its own:
\* it separates the effect of the rollback from that of the selection)
DrainedWithoutReports ==
    \A t \in 1..BurstSize :
        []<> ( ~( reports = << >> /\ DuePendingObj(t) ) )


\* C23: a tick that finds an active scheduled report due leaves one new
\* Pending generate_report task with workflow_id null in the store for it,
\* has counted the generation once, has set last_generated and has moved
\* next_generation into the future; the other reports are unchanged.
C23_Step ==
    ( ctx = "tick" /\ ctx' = "idle" )
        => \A r \in DOMAIN reports :
              IF r \in DueReports(clock)
              THEN /\ reports'[r].generation_count = reports[r].generation_count + 1
                   /\ reports'[r].last_generated # None
                   /\ reports'[r].next_generation > clock
                   /\ \E t \in DOMAIN tasks' \ DOMAIN tasks :
                         /\ tasks'[t].workflow_id = None
                         /\ tasks'[t].action_type = "generate_report"
                         /\ tasks'[t].status = "pending"
              ELSE reports'[r] = reports[r]

C23_DueReportQueuesOneTask == [][C23_Step]_vars


\* C24: an alert rule is evaluated only if it is active and its last_check
\* is null or at least 5 minutes old, every evaluation leaves last_check =
\* now in the store, and two evaluations of one rule are at least 5 minutes
\* apart.
Evaluated(a) ==
    /\ a \in DOMAIN evals /\ a \in DOMAIN evals'
    /\ evals'[a] # evals[a]

C24_Step ==
    \A a \in DOMAIN alerts :
        Evaluated(a)
            => /\ a \in SelectedAlerts(clock)
               /\ alerts'[a].last_check = clock
               /\ evals[a].at # None
                    => evals'[a].at - evals[a].at >= AlertGateMinutes

C24_AlertCheckedOncePerGate == [][C24_Step]_vars

\* C25: when the evaluation of an alert rule returns true, the tick leaves
\* exactly one new Pending send_notification task with workflow_id null in
\* the store, last_triggered = now and trigger_count one higher; when it
\* returns false there is no new task and the two fields are unchanged.
C25_Step ==
    \A a \in DOMAIN alerts :
        Evaluated(a)
            => IF evals'[a].result
               THEN /\ Cardinality(DOMAIN tasks' \ DOMAIN tasks) = 1
                    /\ \A t \in DOMAIN tasks' \ DOMAIN tasks :
                          /\ tasks'[t].workflow_id = None
                          /\ tasks'[t].action_type = "send_notification"
                          /\ tasks'[t].status = "pending"
                    /\ alerts'[a].last_triggered = clock
                    /\ alerts'[a].trigger_count = alerts[a].trigger_count + 1
               ELSE /\ DOMAIN tasks' \subseteq DOMAIN tasks
                    /\ alerts'[a].last_triggered = alerts[a].last_triggered
                    /\ alerts'[a].trigger_count = alerts[a].trigger_count

C25_FiringAlertQueuesOneTask == [][C25_Step]_vars

\* C29: the evaluation of a review_volume rule returns true exactly when
\* the number of reviews of the last hour is at least volume_threshold, 10
\* when the key is absent.
C29_ReviewVolumeThreshold ==
    \A a \in DOMAIN alerts :
        ( evals[a].at # None /\ evals[a].rule.metric_type = "review_volume" )
            => LET vt == evals[a].rule.threshold_config.volume_threshold
                   th == IF vt = None THEN 10 ELSE vt
               IN  evals[a].result <=> ( evals[a].metrics.count >= th )

\* a review_volume rule with volume_threshold 10 was evaluated with 10
\* reviews in the last hour and returned true
C29_Witness ==
    \E a \in DOMAIN alerts :
        /\ evals[a].at # None
        /\ evals[a].rule.metric_type = "review_volume"
        /\ evals[a].rule.threshold_config.volume_threshold = 10
        /\ evals[a].metrics.count = 10
        /\ evals[a].result

\* C30: the evaluation of a negative_sentiment rule returns false when there
\* is no review in the last 24 hours, whatever negative_ratio_threshold is.
C30_NoReviewsNeverFires ==
    \A a \in DOMAIN alerts :
        ( /\ evals[a].at # None
          /\ evals[a].rule.metric_type = "negative_sentiment"
          /\ evals[a].metrics.total = 0 )
            => ~evals[a].result


\* C26: the retention step deletes exactly the tasks that are Completed or
\* Failed with completed_at more than 7 days before now: a task leaves the
\* store only if it is one of these, and a tick whose session is committed
\* leaves none of these behind.
Purgeable(row) ==
    /\ row.status \in {"completed", "failed"}
    /\ row.completed_at # None
    /\ clock - row.completed_at > 7 * DayMinutes

C26_Step ==
    /\ \A t \in DOMAIN tasks \ DOMAIN tasks' : Purgeable(TaskObj(t))
    /\ ( ctx = "tick" /\ ctx' = "idle" /\ DueReports(clock) = {} )
          => \A t \in LiveTasks : Purgeable(TaskObj(t)) => t \notin DOMAIN tasks'

C26_RetentionDeletesExactlyOld == [][C26_Step]_vars

\* a task finished 8 days ago has been deleted and a task completed 6 days
\* ago is still in the store
C26_Witness ==
    /\ \E t \in RetentionTaskIds : t \notin DOMAIN tasks
    /\ \E u \in DOMAIN tasks :
          /\ tasks[u].status = "completed"
          /\ tasks[u].completed_at = RetentionStart - 6 * DayMinutes
    /\ ctx = "idle"

\* C27: a task that is Completed or Failed with no retry left and older than
\* the retention window does not stay in the store forever.
C27_TerminalTasksArePurged ==
    \A t \in RetentionTaskIds :
        []<> ~( t \in DOMAIN tasks /\ Purgeable(tasks[t]) )

\* the same, for a store without scheduled reports (not a claim of its own)
PurgedWithoutReports ==
    \A t \in RetentionTaskIds :
        []<> ~( reports = << >> /\ t \in DOMAIN tasks /\ Purgeable(tasks[t]) )


\* C28: a workflow has a next_execution only if its trigger is a schedule
\* and its status is active.
C28_NextExecutionOnlyActiveSchedule ==
    \A w \in DOMAIN workflows :
        workflows[w].next_execution # None
            => /\ workflows[w].trigger_type = "schedule"
               /\ workflows[w].status = "active"

\* the half of it that the code keeps: only scheduled workflows have one
\* (not a claim of its own)
NextExecutionOnlySchedule ==
    \A w \in DOMAIN workflows :
        workflows[w].next_execution # None => workflows[w].trigger_type = "schedule"


\* C31: the evaluation of a rating_drop rule returns true exactly when the
\* mean rating of the last day and the mean rating of the 6 days from 7 days
\* ago to 1 day ago both exist and the second exceeds the first by at least
\* drop_threshold, 0.5 when the key is absent.
C31_Step ==
    \A a \in DOMAIN alerts :
        ( Evaluated(a) /\ alerts[a].metric_type = "rating_drop" )
            => LET dt == alerts[a].threshold_config.drop_threshold
                   th == IF dt = None THEN 30 ELSE dt
                   recentAvg   == MeanRating(reviews, clock - DayMinutes, clock)
                   previousAvg == MeanRating(reviews, clock - 7 * DayMinutes,
                                             clock - DayMinutes)
               IN  evals'[a].result
                     <=> ( /\ recentAvg # None /\ previousAvg # None
                           /\ previousAvg - recentAvg >= th )

C31_RatingDropWindows == [][C31_Step]_vars

\* the same with the second window as _get_recent_average_rating computes
\* it, the 7 days from 8 days ago to 1 day ago (not a claim of its own)
RatingDropAsCoded ==
    [][ \A a \in DOMAIN alerts :
          ( Evaluated(a) /\ alerts[a].metric_type = "rating_drop" )
            => LET dt == alerts[a].threshold_config.drop_threshold
                   th == IF dt = None THEN 30 ELSE dt
                   recentAvg   == MeanRating(reviews, clock - DayMinutes, clock)
                   previousAvg == MeanRating(reviews, clock - 8 * DayMinutes,
                                             clock - DayMinutes)
               IN  evals'[a].result
                     <=> ( /\ recentAvg # None /\ previousAvg # None
                           /\ previousAvg - recentAvg >= th ) ]_vars


\* C32: when a metric query raises in the evaluation of an alert rule, the
\* evaluation returns false and no exception leaves it, no task is created
\* and the rule's last_triggered and trigger_count stay; every other rule
\* selected in the tick is evaluated too, and when none of them fires the
\* tick commits the last_check of all of them.
MetricErrorIsNoAlert(a) ==
    /\ ~evals'[a].escaped
    /\ ~evals'[a].result
    /\ alerts'[a].last_triggered = alerts[a].last_triggered
    /\ alerts'[a].trigger_count = alerts[a].trigger_count
    /\ DOMAIN tasks' \subseteq DOMAIN tasks
    /\ \A b \in SelectedAlerts(clock) : evals'[b].at = clock
    /\ ( \A b \in SelectedAlerts(clock) : ~evals'[b].result )
          => \A b \in SelectedAlerts(clock) : alerts'[b].last_check = clock

C32_Step ==
    \A a \in DOMAIN alerts :
        ( /\ ctx = "tick" /\ ctx' = "idle"
          /\ a \in SelectedAlerts(clock)
          /\ evals'[a].at = clock /\ evals'[a].raised )
            => MetricErrorIsNoAlert(a)

C32_MetricErrorIsNoAlert == [][C32_Step]_vars

\* the same for the evaluations in which the query that raised was not the
\* one that flushed the task of a rule fired earlier in the tick (not a
\* claim of its own)
ReturnedErrorIsNoAlert ==
    [][ \A a \in DOMAIN alerts :
          ( /\ ctx = "tick" /\ ctx' = "idle"
            /\ a \in SelectedAlerts(clock)
            /\ evals'[a].at = clock /\ evals'[a].raised
            /\ ~evals'[a].escaped )
              => MetricErrorIsNoAlert(a) ]_vars


\* C33: a trigger_event call visits exactly the active rules of the event;
\* a visited rule fires, with last_triggered = now and trigger_count + 1 and
\* an entry in the returned list, exactly when it is not within its
\* cooldown; no other rule changes; and rules of equal priority are
\* processed in ascending order of their ids.
InCooldown(rule, now) ==
    /\ rule.cooldown_minutes > 0
    /\ rule.last_triggered # None
    /\ now < rule.last_triggered + rule.cooldown_minutes

C33_Step ==
    /\ ( ctx = "idle" /\ ctx' = "event" )
          => Range(ruleQ') = { r \in DOMAIN rules :
                                 rules[r].is_active /\ rules[r].trigger_event = curEvent' }
    /\ ( ctx = "event" /\ ruleQ # << >> /\ ruleQ' = Tail(ruleQ) )
          => LET r == Head(ruleQ)
             IN  /\ \A x \in DOMAIN rules \ {r} : rules'[x] = rules[x]
                 /\ IF fired' = Append(fired, r)
                    THEN /\ ~InCooldown(rules[r], clock')
                         /\ rules'[r] = [rules[r] EXCEPT !.last_triggered = clock',
                                                         !.trigger_count = @ + 1]
                    ELSE /\ InCooldown(rules[r], clock)
                         /\ fired' = fired
                         /\ rules'[r] = rules[r]

C33_TiesById ==
    \A i, j \in DOMAIN fired :
        ( i < j /\ rules[fired[i]].priority = rules[fired[j]].priority )
            => fired[i] < fired[j]

C33_TriggerEventFiresExactly == []C33_TiesById /\ [][C33_Step]_vars

\* the same without the order among rules of equal priority (not a claim of
\* its own)
TriggerEventFiresExactly == [][C33_Step]_vars


\* C34: the action_type and the action_config of a task never change after
\* its creation, whatever is done to the actions list of its workflow.
C34_Step ==
    \A t \in LiveTasks \cap LiveTasks' :
        /\ TaskObj(t)'.action_type = TaskObj(t).action_type
        /\ TaskObj(t)'.action_config = TaskObj(t).action_config
        /\ TaskObj(t)'.workflow_id = TaskObj(t).workflow_id

C34_TaskActionFixedAtCreation == [][C34_Step]_vars

\* a task is Pending for a retry with the action it was created with, after
\* the actions list of its workflow was replaced by a list without it
C34_Witness ==
    \E t \in DOMAIN tasks :
        /\ tasks[t].status = "pending" /\ tasks[t].retry_count > 0
        /\ tasks[t].action_type = "generate_response"
        /\ workflows[tasks[t].workflow_id].actions \in EditActionLists
        /\ ctx = "idle"


\* C35: with execute_workflow called for one workflow by the scheduler
\* thread and by a request thread at the same time, execution_count never
\* exceeds max_executions and, once the calls have returned, equals the
\* number of calls that returned true.
C35_NoLostExecution ==
    \A w \in DOMAIN workflows :
        /\ workflows[w].max_executions # None
              => workflows[w].execution_count <= workflows[w].max_executions
        /\ ( \A th \in RaceThreads : race[th].pc \in {"idle", "done"} )
              => workflows[w].execution_count = race.returnedTrue

\* the same for the runs in which no call began while another was in flight
\* (not a claim of its own)
SequentialCallsAreCounted ==
    \A w \in DOMAIN workflows :
        ~race.overlapped
          => /\ workflows[w].max_executions # None
                   => workflows[w].execution_count <= workflows[w].max_executions
             /\ ( \A th \in RaceThreads : race[th].pc \in {"idle", "done"} )
                   => workflows[w].execution_count = race.returnedTrue


\* C36: a task becomes Completed only in a step in which the handler of its
\* action kind was called for it and returned, whichever of the six kinds of
\* ActionType it has.
BecomesCompleted(t) ==
    /\ TaskObj(t).status # "completed"
    /\ TaskObj(t)'.status = "completed"

C36_Step ==
    \A t \in LiveTasks \cap LiveTasks' :
        BecomesCompleted(t)
            => /\ TaskObj(t).action_type \in ActionType
               /\ invoked' = [tid |-> t, before |-> "running"]

C36_CompletedOnlyAfterHandler == [][C36_Step]_vars

\* the same for the three kinds _execute_task has a branch for (not a claim
\* of its own)
HandledKindsCompleteAfterHandler ==
    [][ \A t \in LiveTasks \cap LiveTasks' :
          ( BecomesCompleted(t) /\ TaskObj(t).action_type \in HandledActionTypes )
            => invoked' = [tid |-> t, before |-> "running"] ]_vars


\* C37: a task whose committed status is Running and which no
\* _execute_task call is working on is left as it is by every step of the
\* scheduler: it is not selected by the pending-task step, not loaded into
\* the session, not changed and not deleted, so it is Running for ever.
Orphaned(t) ==
    /\ t \in DOMAIN tasks
    /\ tasks[t].status = "running"
    /\ t \notin DOMAIN ssn
    /\ cur.tid # t
    /\ t \notin Range(pendQ)

C37_Step ==
    \A t \in DOMAIN tasks :
        Orphaned(t) => /\ Orphaned(t)'
                       /\ tasks'[t] = tasks[t]

C37_RunningTaskStaysRunning == [][C37_Step]_vars

\* a tick has been committed that deleted an old task and left a task that
\* has been Running since more than 7 days, and is due by its scheduled_at
C37_Witness ==
    \E t, u \in RetentionTaskIds :
        /\ u \notin DOMAIN tasks
        /\ Orphaned(t)
        /\ clock - tasks[t].started_at > 7 * DayMinutes
        /\ tasks[t].scheduled_at <= clock
        /\ ctx = "idle"


\* C38: once a tick has executed a due scheduled workflow or has handled a
\* due scheduled report, the next due time of that record is null or later
\* than now; it is null when the schedule descriptor has no recognised
\* type, and a record whose next due time is null is not selected.
ExecutedByTick(w) ==
    /\ ctx = "tick"
    /\ w \in DOMAIN workflows
    /\ workflows'[w].execution_count > workflows[w].execution_count

DueWorkflowMovesOn_Step ==
    \A w \in DOMAIN workflows :
        ExecutedByTick(w)
            => /\ \/ workflows'[w].next_execution = None
                  \/ workflows'[w].next_execution > clock
               /\ workflows[w].trigger_config.type \notin {"interval", "cron"}
                     => workflows'[w].next_execution = None
               /\ workflows'[w].next_execution = None
                     => w \notin DueWorkflows(clock)'

DueReportMovesOn_Step ==
    \A r \in DOMAIN reports :
        ( ctx = "tick" /\ ctx' = "idle" /\ r \in DueReports(clock) )
            => /\ \/ reports'[r].next_generation = None
                  \/ reports'[r].next_generation > clock
               /\ reports[r].schedule_type \notin {"interval", "cron"}
                     => reports'[r].next_generation = None
               /\ r \notin DueReports(clock)'

C38_Step == DueWorkflowMovesOn_Step /\ DueReportMovesOn_Step

C38_DueRecordMovesOn == [][C38_Step]_vars

\* the half about the scheduled workflows (not a claim of its own)
DueWorkflowMovesOn == [][DueWorkflowMovesOn_Step]_vars


\* C39: when the running flag stays cleared from some moment on (a stop()
\* call that no start() follows), every thread of the loop ends in the end;
\* and a thread that has seen the cleared flag at the test of the while loop
\* has ended and takes no further step.
C39_Step ==
    \A th \in DOMAIN threads :
        /\ ( threads[th].pc = "check" /\ ~running /\ threads'[th] # threads[th] )
              => threads'[th].pc = "exited"
        /\ threads[th].pc = "exited" => threads'[th] = threads[th]

C39_StoppedLoopTerminates ==
    /\ [][C39_Step]_vars
    /\ \A th \in ThreadIds :
          ( <>[] ~running ) => <>[] ( PcOf(th) \in {"unborn", "exited"} )

\* after a stop() call a thread that had committed a tick has ended
C39_Witness ==
    \E th \in DOMAIN threads :
        /\ ~running /\ joining = 0
        /\ threads[th].pc = "exited"
        /\ threads[th].lastTick = "committed"

====
